---- MODULE Spec2Model ----
(***************************************************************************)
(* The projection / queueing / reconciliation core of the FortuneSheet AI  *)
(* bridge: the API server's snapshot store and queues                      *)
(* (fortune-sheet/ai/api_server.js) and the browser client's poller        *)
(* (FortuneSheetAIClient, unnamed/part_002).                               *)
(*                                                                         *)
(* JavaScript strings that the code inspects character by character (cell  *)
(* references, table keys, cell contents) are sequences of one-character   *)
(* strings; sheet names, which the code only concatenates and compares,    *)
(* are TLA+ strings.  JavaScript values are tagged records.                *)
(***************************************************************************)
EXTENDS Integers, Sequences, FiniteSets, TLC

VARIABLES
    workbookData,           \* server: the held snapshot, a sequence of sheets
    pendingUpdates,         \* server: sheet id -> sequence of queued updates
    pendingSheetCreations,  \* server: sequence of queued creation requests
    created,                \* ids handed out by POST /api/sheets so far
    workbookRef,            \* client: is window.workbookRef.current set
    liveSheets,             \* document owner: the sheets of the live workbook
    liveCells,              \* document owner: sheet id -> (<<row,col>> -> payload)
    activeSheet,            \* document owner: the active sheet's id
    pc,                     \* poller: where the current cycle stands
    creations,              \* poller: data.sheets of checkAndApplyNewSheets
    ci,                     \* poller: index of the next creation request
    sheets,                 \* poller: the sheet list of this cycle
    si,                     \* poller: index of the sheet being processed
    updates,                \* poller: data.updates of the sheet being processed
    nextUid,                \* history: identity of the next update object
    faults,                 \* history: failures injected so far
    passLog,                \* history: the writes of the current apply pass
    passInfo,               \* history: the last apply pass and what followed it
    inWindow,               \* history: uids appended between a drain and its clear
    wiped,                  \* history: uids removed by a clear that never drained them
    applied,                \* history: uids whose write reached the live document
    createLog,              \* history: what the current creation pass did, per request
    timers,                 \* client: pending setTimeout(poll) callbacks
    delivered,              \* history: creation id -> cycles that handed it to the owner
    call                    \* the last handler or callback run and what it left

vars == <<workbookData, pendingUpdates, pendingSheetCreations, created,
          workbookRef, liveSheets, liveCells, activeSheet,
          pc, creations, ci, sheets, si, updates,
          nextUid, faults, passLog, passInfo, inWindow, wiped, applied, createLog,
          timers, delivered, call>>


----------------------------------------------------------------------------
(* Bounds of the model. *)

MaxCreate == 2      \* POST /api/sheets requests per behaviour
MaxEnq    == 2      \* update objects enqueued per behaviour
MaxFaults == 1      \* failures (network, document owner) per behaviour

----------------------------------------------------------------------------
(* JavaScript values. *)

Null     == [t |-> "null"]
Undef    == [t |-> "undefined"]
Str(s)   == [t |-> "str", v |-> s]
Num(n)   == [t |-> "num", v |-> n]

IsNullish(x) == x.t \in {"null", "undefined"}
\* JavaScript truthiness of a tagged value
Truthy(x) ==
    CASE x.t = "str" -> x.v # <<>>
      [] x.t = "num" -> x.v # 0
      [] OTHER       -> FALSE

\* The printable ASCII characters, codes 32 to 126, in code order (code 96
\* is spelled out: no input of the model contains it).
Ascii ==
    <<" ", "!", "\"", "#", "$", "%", "&", "'", "(", ")", "*", "+", ",", "-", ".", "/",
      "0", "1", "2", "3", "4", "5", "6", "7", "8", "9", ":", ";", "<", "=", ">", "?",
      "@", "A", "B", "C", "D", "E", "F", "G", "H", "I", "J", "K", "L", "M", "N", "O",
      "P", "Q", "R", "S", "T", "U", "V", "W", "X", "Y", "Z", "[", "\\", "]", "^", "_",
      "grave", "a", "b", "c", "d", "e", "f", "g", "h", "i", "j", "k", "l", "m", "n", "o",
      "p", "q", "r", "s", "t", "u", "v", "w", "x", "y", "z", "{", "|", "}", "~">>

CharCodes == [ch \in {Ascii[i] : i \in DOMAIN Ascii} |->
                 31 + (CHOOSE i \in DOMAIN Ascii : Ascii[i] = ch)]

charCodeAt(ch) == CharCodes[ch]
fromCharCode(n) == Ascii[n - 31]

IsDigit(ch) == charCodeAt(ch) \in 48..57
IsUpper(ch) == charCodeAt(ch) \in 65..90
IsQuote(ch) == ch \in {"'", "\""}

RECURSIVE TakeWhileDigit(_)
TakeWhileDigit(s) ==
    IF s # <<>> /\ IsDigit(s[1]) THEN <<s[1]>> \o TakeWhileDigit(Tail(s)) ELSE <<>>

RECURSIVE TakeWhileUpper(_)
TakeWhileUpper(s) ==
    IF s # <<>> /\ IsUpper(s[1]) THEN <<s[1]>> \o TakeWhileUpper(Tail(s)) ELSE <<>>

RECURSIVE DropWhileQuote(_)
DropWhileQuote(s) ==
    IF s # <<>> /\ IsQuote(s[1]) THEN DropWhileQuote(Tail(s)) ELSE s

RECURSIVE DropEndQuote(_)
DropEndQuote(s) ==
    IF s # <<>> /\ IsQuote(s[Len(s)]) THEN DropEndQuote(SubSeq(s, 1, Len(s) - 1)) ELSE s

RECURSIVE DropWhileSpace(_)
DropWhileSpace(s) ==
    IF s # <<>> /\ s[1] = " " THEN DropWhileSpace(Tail(s)) ELSE s

RECURSIVE DecimalValue(_)
DecimalValue(ds) ==
    IF ds = <<>> THEN 0
    ELSE 10 * DecimalValue(SubSeq(ds, 1, Len(ds) - 1)) + (charCodeAt(ds[Len(ds)]) - 48)

\* parseInt(s, 10): leading blanks, an optional sign, the leading digits; NaN without digits
parseInt(s) ==
    LET t    == DropWhileSpace(s)
        sign == IF t # <<>> /\ t[1] = "-" THEN -1 ELSE 1
        body == IF t # <<>> /\ t[1] \in {"-", "+"} THEN Tail(t) ELSE t
        ds   == TakeWhileDigit(body)
    IN  IF ds = <<>> THEN [nan |-> TRUE, n |-> 0]
        ELSE [nan |-> FALSE, n |-> sign * DecimalValue(ds)]

\* the row key, were it parsed as it comes
KeepQuotes(s) == s

\* rowNum.replace(/^['"]+|['"]+$/g, '')
StripQuotes(s) == DropEndQuote(DropWhileQuote(s))

\* `${n}` for an integer n
RECURSIVE NatToString(_)
NatToString(n) ==
    IF n < 10 THEN <<fromCharCode(48 + n)>>
    ELSE NatToString(n \div 10) \o <<fromCharCode(48 + (n % 10))>>

IntToString(n) == IF n < 0 THEN <<"-">> \o NatToString(-n) ELSE NatToString(n)

----------------------------------------------------------------------------
(* CoordinateCodec: api_server.js, indexToColumnChar .. getCellReference.   *)

RECURSIVE indexToColumnCharLoop(_, _)
indexToColumnCharLoop(index, result) ==
    IF index >= 0
    THEN indexToColumnCharLoop((index \div 26) - 1,
                               <<fromCharCode(65 + (index % 26))>> \o result)
    ELSE result

indexToColumnChar(index) == indexToColumnCharLoop(index, <<>>)

RECURSIVE columnCharToIndexLoop(_, _, _)
columnCharToIndexLoop(columnChar, i, index) ==
    IF i <= Len(columnChar)
    THEN columnCharToIndexLoop(columnChar, i + 1,
                               index * 26 + (charCodeAt(columnChar[i]) - 64))
    ELSE index

\* the decoding, were A to count as 1
columnCharToIndexOneBased(columnChar) == columnCharToIndexLoop(columnChar, 1, 0)

columnCharToIndex(columnChar) == columnCharToIndexLoop(columnChar, 1, 0) - 1

NoMatch == [match |-> FALSE, row |-> 0, col |-> 0]

\* cellRef.match(/^([A-Z]+)(\d+)$/), then the two conversions
parseCellReference(cellRef) ==
    LET letters == TakeWhileUpper(cellRef)
        rest    == SubSeq(cellRef, Len(letters) + 1, Len(cellRef))
    IN  IF letters = <<>> \/ rest = <<>> \/ TakeWhileDigit(rest) # rest
        THEN NoMatch
        ELSE [match |-> TRUE,
              row   |-> parseInt(rest).n - 1,
              col   |-> columnCharToIndex(letters)]

getCellReference(row, col) == indexToColumnChar(col) \o IntToString(row + 1)

----------------------------------------------------------------------------
(* SheetCreationQueue: api_server.js, POST /api/sheets.                     *)

\* `sheet_${Date.now()}_${random}`: an id no earlier request was given
NewSheetId(ids) == "sheet_" \o ToString(Cardinality(ids) + 1)

existingNames(wb) == {wb[i].name : i \in DOMAIN wb}

\* no name given: "Sheet" + N, N counting up from the sheet count + 1
RECURSIVE DefaultNameLoop(_, _)
DefaultNameLoop(names, sheetNum) ==
    LET sheetName == "Sheet" \o ToString(sheetNum)
    IN  IF sheetName \in names THEN DefaultNameLoop(names, sheetNum + 1) ELSE sheetName

\* the suffix loop, were it to try N + 1 first
RECURSIVE SuffixNameLoopFromNext(_, _, _)
SuffixNameLoopFromNext(names, name, sheetNum) ==
    LET newName == name \o ToString(sheetNum + 1)
    IN  IF newName \in names THEN SuffixNameLoopFromNext(names, name, sheetNum + 1)
        ELSE newName

\* the name exists: name + N, N counting up from 1
RECURSIVE SuffixNameLoop(_, _, _)
SuffixNameLoop(names, name, sheetNum) ==
    LET newName == name \o ToString(sheetNum)
    IN  IF newName \in names THEN SuffixNameLoop(names, name, sheetNum + 1) ELSE newName

\* the naming, were a given name taken as it is
SheetNameAsGiven(wb, name) ==
    IF name = "" THEN DefaultNameLoop(existingNames(wb), Len(wb) + 1) ELSE name

\* name is "" when the request gives none
SheetNameFor(wb, name) ==
    IF name = "" THEN DefaultNameLoop(existingNames(wb), Len(wb) + 1)
    ELSE IF name \in existingNames(wb) THEN SuffixNameLoop(existingNames(wb), name, 1)
    ELSE name

\* order is Undef or Num(n)
SheetOrderFor(wb, order) == IF order.t = "undefined" THEN Len(wb) ELSE order.v

InsertsAtOrder(wb, order) == order.t # "undefined" /\ order.v < Len(wb)

\* the shift, were it to move every sheet
ShiftAllOrders(wb, order) ==
    [i \in DOMAIN wb |-> [wb[i] EXCEPT !.order = @ + 1]]

\* workbookData.forEach(sheet => { if (sheet.order >= order) sheet.order++ })
ShiftOrders(wb, order) ==
    [i \in DOMAIN wb |->
        IF wb[i].order >= order
        THEN [wb[i] EXCEPT !.order = @ + 1]
        ELSE wb[i]]

\* the insertion, were it always at the end
SpliceAtEnd(arr, start, item) == Append(arr, item)

\* Array.prototype.splice(start, 0, item)
Splice(arr, start, item) ==
    LET at == IF start < 0 THEN (IF Len(arr) + start < 0 THEN 0 ELSE Len(arr) + start)
              ELSE (IF start > Len(arr) THEN Len(arr) ELSE start)
    IN  SubSeq(arr, 1, at) \o <<item>> \o SubSeq(arr, at + 1, Len(arr))

InsertSheet(wb, order, newSheet) ==
    IF InsertsAtOrder(wb, order)
    THEN Splice(ShiftOrders(wb, order.v), order.v, newSheet)
    ELSE Append(wb, newSheet)

----------------------------------------------------------------------------
(* UpdateQueueManager: api_server.js, the three POST handlers and the       *)
(* pending-updates GET / DELETE.                                            *)

\* GET /api/sheets
ListSheets(wb) ==
    [i \in DOMAIN wb |-> [id |-> wb[i].id, name |-> wb[i].name, order |-> wb[i].order]]

\* the lookup, were every id taken for a sheet of the snapshot
HasAnySheet(wb, id) == TRUE

HasSheet(wb, id) == \E i \in DOMAIN wb : wb[i].id = id

\* a GET that answers with an empty list whatever is queued
NoQueue(q, id) == <<>>

\* pendingUpdates.get(id) || []
QueueOf(q, id) == IF id \in DOMAIN q THEN q[id] ELSE <<>>

\* if (!pendingUpdates.has(id)) pendingUpdates.set(id, []); get(id).push(...us)
PushUpdates(q, id, us) ==
    [k \in DOMAIN q \cup {id} |-> IF k = id THEN QueueOf(q, id) \o us ELSE q[k]]

\* a clear that drops only the oldest update of the queue
DeleteOldest(q, id) ==
    [k \in DOMAIN q |-> IF k = id /\ q[k] # <<>> THEN Tail(q[k]) ELSE q[k]]

\* a clear that leaves the queue as it is
KeepQueue(q, id) == q

\* a clear that drops the queues of all sheets
DeleteAllQueues(q, id) == [k \in {} |-> <<>>]

\* pendingUpdates.delete(id)
DeleteQueue(q, id) == [k \in DOMAIN q \ {id} |-> q[k]]

\* the update, were the value kept beside the formula
PointUpdateKeepsBoth(coords, body) ==
    [row     |-> coords.row,
     col     |-> coords.col,
     value   |-> body.value,
     formula |-> IF Truthy(body.formula) THEN body.formula ELSE Null,
     cell    |-> body.cell]

\* { row, col, value: formula ? null : value, formula: formula || null, cell }
PointUpdate(coords, body) ==
    [row     |-> coords.row,
     col     |-> coords.col,
     value   |-> IF Truthy(body.formula) THEN Null ELSE body.value,
     formula |-> IF Truthy(body.formula) THEN body.formula ELSE Null,
     cell    |-> body.cell]

\* the loop, were a bad item to end it
RECURSIVE BatchUpdatesUntilBad(_, _)
BatchUpdatesUntilBad(cells, i) ==
    IF i > Len(cells) THEN <<>>
    ELSE IF cells[i].cell = <<>> \/ ~parseCellReference(cells[i].cell).match
    THEN <<>>
    ELSE <<PointUpdate(parseCellReference(cells[i].cell), cells[i])>>
         \o BatchUpdatesUntilBad(cells, i + 1)

\* the loop of POST /cells over the items from index i on
RECURSIVE BatchUpdates(_, _)
BatchUpdates(cells, i) ==
    IF i > Len(cells) THEN <<>>
    ELSE LET cellData == cells[i]
             coords   == parseCellReference(cellData.cell)
         IN  IF cellData.cell = <<>> \/ ~coords.match
             THEN BatchUpdates(cells, i + 1)
             ELSE <<PointUpdate(coords, cellData)>> \o BatchUpdates(cells, i + 1)

\* A JSON object is Null or Obj(entries): its properties in the order the
\* request text gives them, keys pairwise different.
Obj(entries) == [t |-> "obj", v |-> entries]

\* a canonical array index: digits only, no leading zero
IsArrayIndex(key) ==
    key # <<>> /\ TakeWhileDigit(key) = key /\ (Len(key) = 1 \/ key[1] # "0")

RECURSIVE AscendingIndexEntries(_, _)
AscendingIndexEntries(entries, S) ==
    IF S = {} THEN <<>>
    ELSE LET m == CHOOSE i \in S :
                    \A j \in S : DecimalValue(entries[i].key) <= DecimalValue(entries[j].key)
         IN  <<entries[m]>> \o AscendingIndexEntries(entries, S \ {m})

\* Object.entries(o): integer keys ascending, then the other keys as created
ObjectEntries(o) ==
    AscendingIndexEntries(o.v, {i \in DOMAIN o.v : IsArrayIndex(o.v[i].key)})
      \o SelectSeq(o.v, LAMBDA e : ~IsArrayIndex(e.key))

\* the two nested for-loops of POST /from-table, as the list of the cells
\* they visit: [rowNum, colLetter, value]
RECURSIVE TableCellsFrom(_, _)
TableCellsFrom(rows, i) ==
    IF i > Len(rows) THEN <<>>
    ELSE LET cols == ObjectEntries(rows[i].val)
         IN  [j \in 1..Len(cols) |->
                 [rowNum |-> rows[i].key, colLetter |-> cols[j].key, value |-> cols[j].val]]
             \o TableCellsFrom(rows, i + 1)

TableCells(table) == TableCellsFrom(ObjectEntries(table), 1)

\* parseInt(rowNum.replace(...), 10) - 1, and the test isNaN(row) || row < 0
TableRow(rowNum) ==
    LET n == parseInt(StripQuotes(rowNum))
    IN  [skip |-> n.nan \/ n.n - 1 < 0, row |-> n.n - 1]

\* "Process values table": the updates after the visit of cells[i..]
RECURSIVE ValuesPass(_, _, _, _)
ValuesPass(cells, i, us, processedCells) ==
    IF i > Len(cells) THEN us
    ELSE LET r   == TableRow(cells[i].rowNum)
             col == columnCharToIndex(cells[i].colLetter)
         IN  IF r.skip \/ IsNullish(cells[i].value) \/ col < 0
                  \/ <<r.row, col>> \in processedCells
             THEN ValuesPass(cells, i + 1, us, processedCells)
             ELSE ValuesPass(cells, i + 1,
                             Append(us, [row     |-> r.row,
                                         col     |-> col,
                                         value   |-> cells[i].value,
                                         formula |-> Null,
                                         cell    |-> getCellReference(r.row, col)]),
                             processedCells \cup {<<r.row, col>>})

\* the test, were every string a formula
IsFormulaAnyString(x) == x.t = "str"

IsFormula(x) == x.t = "str" /\ x.v # <<>> /\ x.v[1] = "="

\* updates.findIndex(u => u.row === row && u.col === col), 0 when there is none
FindIndex(us, row, col) ==
    IF \E k \in DOMAIN us : us[k].row = row /\ us[k].col = col
    THEN CHOOSE k \in DOMAIN us :
            /\ us[k].row = row /\ us[k].col = col
            /\ \A m \in 1..(k - 1) : ~(us[m].row = row /\ us[m].col = col)
    ELSE 0

\* the formulas pass, were it to keep the entry it overrides
KeepAt(us, k) == us

\* updates.splice(existingIndex, 1) when existingIndex >= 0
RemoveAt(us, k) == IF k = 0 THEN us ELSE SubSeq(us, 1, k - 1) \o SubSeq(us, k + 1, Len(us))

\* "Process formulas table (overrides values if same cell)"
RECURSIVE FormulasPass(_, _, _)
FormulasPass(cells, i, us) ==
    IF i > Len(cells) THEN us
    ELSE LET r   == TableRow(cells[i].rowNum)
             col == columnCharToIndex(cells[i].colLetter)
             fv  == cells[i].value
         IN  IF r.skip \/ IsNullish(fv) \/ col < 0
             THEN FormulasPass(cells, i + 1, us)
             ELSE FormulasPass(cells, i + 1,
                    Append(RemoveAt(us, FindIndex(us, r.row, col)),
                           [row     |-> r.row,
                            col     |-> col,
                            value   |-> IF IsFormula(fv) THEN Null ELSE fv,
                            formula |-> IF IsFormula(fv) THEN fv ELSE Null,
                            cell    |-> getCellReference(r.row, col)]))

\* the `updates` array, were the formulas table walked first and the values
\* table after it, skipping the cells already queued
TableUpdatesFormulasFirst(values_table, formulas_table) ==
    LET afterFormulas == IF formulas_table.t = "obj"
                         THEN FormulasPass(TableCells(formulas_table), 1, <<>>)
                         ELSE <<>>
    IN  IF values_table.t = "obj"
        THEN ValuesPass(TableCells(values_table), 1, afterFormulas,
                        {<<afterFormulas[k].row, afterFormulas[k].col>> :
                            k \in DOMAIN afterFormulas})
        ELSE afterFormulas

\* the `updates` array of POST /from-table for one request body
TableUpdates(values_table, formulas_table) ==
    LET afterValues == IF values_table.t = "obj"
                       THEN ValuesPass(TableCells(values_table), 1, <<>>, {})
                       ELSE <<>>
    IN  IF formulas_table.t = "obj"
        THEN FormulasPass(TableCells(formulas_table), 1, afterValues)
        ELSE afterValues

\* The object identity of each queued update, as a field: uids count the
\* update objects in the order the handlers create them.
Stamp(us, from) ==
    [i \in 1..Len(us) |->
        [row |-> us[i].row, col |-> us[i].col, value |-> us[i].value,
         formula |-> us[i].formula, cell |-> us[i].cell, uid |-> from + i - 1]]

Uids(us) == {us[i].uid : i \in DOMAIN us}
UidSeq(us) == [i \in 1..Len(us) |-> us[i].uid]

\* POST /cell, were a reference that does not parse queued for A1
PostCellResultQueuesAnyRef(wb, id, body) ==
    IF ~HasSheet(wb, id) THEN [status |-> 404, us |-> <<>>]
    ELSE [status |-> 200,
          us |-> <<PointUpdate(IF body.cell # <<>> /\ parseCellReference(body.cell).match
                               THEN parseCellReference(body.cell)
                               ELSE [match |-> TRUE, row |-> 0, col |-> 0], body)>>]

\* POST /api/sheet/:id/cell, body {cell, value, formula}; cell is <<>> when absent
PostCellResult(wb, id, body) ==
    IF ~HasSheet(wb, id) THEN [status |-> 404, us |-> <<>>]
    ELSE IF body.cell = <<>> \/ ~parseCellReference(body.cell).match
    THEN [status |-> 400, us |-> <<>>]
    ELSE [status |-> 200, us |-> <<PointUpdate(parseCellReference(body.cell), body)>>]

\* POST /api/sheet/:id/cells, body {cells}
PostCellsResult(wb, id, body) ==
    IF ~HasSheet(wb, id) THEN [status |-> 404, us |-> <<>>]
    ELSE IF ~body.isArray THEN [status |-> 400, us |-> <<>>]
    ELSE [status |-> 200, us |-> BatchUpdates(body.cells, 1)]

\* POST /api/sheet/:id/from-table, body {values_table, formulas_table}
PostFromTableResult(wb, id, body) ==
    IF ~HasSheet(wb, id) THEN [status |-> 404, us |-> <<>>]
    ELSE IF body.values_table.t # "obj" /\ body.formulas_table.t # "obj"
    THEN [status |-> 400, us |-> <<>>]
    ELSE [status |-> 200, us |-> TableUpdates(body.values_table, body.formulas_table)]

\* the `count` of the JSON the batch and table handlers answer with
ResponseCount(r) == Len(r.us)

----------------------------------------------------------------------------
(* The state after construction: the server holds nothing (workbookData =   *)
(* [], empty queues), the App's workbook holds its one initial sheet, the   *)
(* client is connected and its first poll is scheduled.                     *)

InitialSheetId == "s0"

NoPass == [sheet |-> "", phase |-> "none", uids |-> <<>>, failed |-> {},
           enq |-> FALSE, missing |-> FALSE]
NoCall == [op |-> "none"]

EmptyCells == [rc \in {} |-> Null]

Init ==
    /\ workbookData = <<>>
    /\ pendingUpdates = [k \in {} |-> <<>>]
    /\ pendingSheetCreations = <<>>
    /\ created = {}
    /\ workbookRef = TRUE
    /\ liveSheets = <<[id |-> InitialSheetId, name |-> "Sheet1"]>>
    /\ liveCells = [k \in {InitialSheetId} |-> EmptyCells]
    /\ activeSheet = InitialSheetId
    /\ pc = "idle"
    /\ creations = <<>>
    /\ ci = 1
    /\ sheets = <<>>
    /\ si = 1
    /\ updates = <<>>
    /\ timers = 1
    /\ nextUid = 1
    /\ faults = 0
    /\ passLog = <<>>
    /\ passInfo = NoPass
    /\ inWindow = {}
    /\ wiped = {}
    /\ applied = {}
    /\ createLog = <<>>
    /\ delivered = [k \in {} |-> 0]
    /\ call = NoCall

LiveIds == {liveSheets[i].id : i \in DOMAIN liveSheets}
KnownIds == LiveIds \cup created

----------------------------------------------------------------------------
(* Producer requests. *)

\* the poller has drained sheet id in this cycle and has not yet cleared it
InDrainWindow(id) ==
    pc \in {"applyStart", "applyLoop", "clearPending"} /\ sheets[si] = id

\* one of the three enqueue handlers answers with result r
ServeEnqueueHandler(id, r) ==
    /\ nextUid + Len(r.us) <= MaxEnq + 1
    /\ pendingUpdates' = IF r.status = 200
                         THEN PushUpdates(pendingUpdates, id, Stamp(r.us, nextUid))
                         ELSE pendingUpdates
    /\ nextUid' = nextUid + Len(r.us)
    /\ inWindow' = IF InDrainWindow(id)
                   THEN inWindow \cup Uids(Stamp(r.us, nextUid))
                   ELSE inWindow
    /\ passInfo' = IF passInfo.phase # "none" /\ passInfo.sheet = id /\ r.us # <<>>
                   THEN [passInfo EXCEPT !.enq = TRUE]
                   ELSE passInfo
    /\ UNCHANGED <<workbookData, pendingSheetCreations, created,
                   workbookRef, liveSheets, liveCells, activeSheet,
                   pc, creations, ci, sheets, si, updates, timers,
                   faults, passLog, wiped, applied, createLog, delivered>>

ServeEnqueue(id, r) == ServeEnqueueHandler(id, r) /\ UNCHANGED call

PostCell(id, body) == ServeEnqueue(id, PostCellResult(workbookData, id, body))

PostCells(id, body) == ServeEnqueue(id, PostCellsResult(workbookData, id, body))

PostFromTable(id, body) == ServeEnqueue(id, PostFromTableResult(workbookData, id, body))

\* the sheet POST /api/sheets makes of the body {name, order}; name is ""
\* when absent.  Its id, name and order are also the response and the
\* queued creation request.
NewSheet(wb, ids, name, order) ==
    [id    |-> NewSheetId(ids),
     name  |-> SheetNameFor(wb, name),
     order |-> SheetOrderFor(wb, order)]

\* POST /api/sheets
PostSheetsHandler(name, order) ==
    /\ Cardinality(created) < MaxCreate
    /\ LET newSheet == NewSheet(workbookData, created, name, order)
       IN  /\ workbookData' = InsertSheet(workbookData, order, newSheet)
           /\ pendingUpdates' =
                 [k \in DOMAIN pendingUpdates \cup {newSheet.id} |->
                     IF k = newSheet.id THEN <<>> ELSE pendingUpdates[k]]
           /\ pendingSheetCreations' = Append(pendingSheetCreations, newSheet)
           /\ created' = created \cup {newSheet.id}
           /\ delivered' = [k \in DOMAIN delivered \cup {newSheet.id} |->
                               IF k = newSheet.id THEN 0 ELSE delivered[k]]
    /\ UNCHANGED <<workbookRef, liveSheets, liveCells, activeSheet,
                   pc, creations, ci, sheets, si, updates, timers,
                   nextUid, faults, passLog, passInfo, inWindow, wiped, applied,
                   createLog>>

PostSheets(name, order) == PostSheetsHandler(name, order) /\ UNCHANGED call

\* the held workbook, were the body merged into it
MergeWorkbook(wb, body) ==
    body \o SelectSeq(wb, LAMBDA sh : \A i \in DOMAIN body : body[i].id # sh.id)

\* workbookData = req.body
ReplaceWorkbook(wb, body) == body

\* POST /api/workbook/update with the body `snapshot`
PostWorkbookUpdate(snapshot) ==
    /\ workbookData' = ReplaceWorkbook(workbookData, snapshot)
    /\ UNCHANGED <<pendingUpdates, pendingSheetCreations, created,
                   workbookRef, liveSheets, liveCells, activeSheet,
                   pc, creations, ci, sheets, si, updates, timers,
                   nextUid, faults, passLog, passInfo, inWindow, wiped, applied,
                   createLog, delivered, call>>

\* getAllSheets() of the live workbook, as the App hands it to onDataChange
LiveSnapshot ==
    [i \in 1..Len(liveSheets) |->
        [id |-> liveSheets[i].id, name |-> liveSheets[i].name, order |-> i - 1]]

\* window.aiService.onDataChange(data): the App's onChange and its sync effect
OnDataChange == PostWorkbookUpdate(LiveSnapshot)

\* the App's effect sets window.workbookRef and its cleanup resets it
SetWorkbookRef ==
    /\ workbookRef' = ~workbookRef
    /\ UNCHANGED <<workbookData, pendingUpdates, pendingSheetCreations, created,
                   liveSheets, liveCells, activeSheet,
                   pc, creations, ci, sheets, si, updates, timers,
                   nextUid, faults, passLog, passInfo, inWindow, wiped, applied,
                   createLog, delivered, call>>

----------------------------------------------------------------------------
(* ReconciliationPoller: part_002, startPollingForUpdates.poll,             *)
(* checkAndApplyNewSheets and applyUpdates.  One action per step between    *)
(* two awaits; a request's action is the moment the server serves it.       *)

\* the end of poll(), were it to arm no timer
EndCycleStops ==
    /\ pc' = "idle"
    /\ timers' = timers

\* setTimeout(poll, pollInterval), the last statement of poll()
EndCycle ==
    /\ pc' = "idle"
    /\ timers' = timers + 1

\* the end of one iteration of `for (const sheet of sheets)`
NextSheet ==
    IF si < Len(sheets)
    THEN pc' = "getPending" /\ si' = si + 1 /\ UNCHANGED timers
    ELSE EndCycle /\ UNCHANGED si

\* poll() run by a timer that re-arms itself when it fires, as setInterval
\* would: the next run does not wait for this one
PollTickInterval ==
    /\ timers > 0
    /\ IF ~workbookRef
       THEN UNCHANGED <<pc, timers, passInfo, passLog, createLog, inWindow>>
       ELSE /\ pc' = "getCreations"
            /\ timers' = timers
            /\ passInfo' = NoPass
            /\ passLog' = <<>>
            /\ createLog' = <<>>
            /\ inWindow' = {}
    /\ UNCHANGED <<workbookData, pendingUpdates, pendingSheetCreations, created,
                   workbookRef, liveSheets, liveCells, activeSheet,
                   creations, ci, sheets, si, updates,
                   nextUid, faults, wiped, applied, delivered, call>>

\* poll(), were it to go to the sheet list first and leave the creation pass
\* out
PollTickSheetsFirst ==
    /\ timers > 0
    /\ IF ~workbookRef
       THEN UNCHANGED <<pc, timers, passInfo, passLog, createLog, inWindow>>
       ELSE /\ pc' = "getSheets"
            /\ timers' = timers - 1
            /\ passInfo' = NoPass
            /\ passLog' = <<>>
            /\ createLog' = <<>>
            /\ inWindow' = {}
    /\ UNCHANGED <<workbookData, pendingUpdates, pendingSheetCreations, created,
                   workbookRef, liveSheets, liveCells, activeSheet,
                   creations, ci, sheets, si, updates,
                   nextUid, faults, wiped, applied, delivered, call>>

\* a pending setTimeout(poll) callback fires: poll() runs up to its first
\* await.  Only the timer guards it; nothing in poll() looks at a cycle in
\* progress.
PollTick ==
    /\ timers > 0
    /\ IF ~workbookRef
       THEN UNCHANGED <<pc, timers, passInfo, passLog, createLog, inWindow>>
       ELSE /\ pc' = "getCreations"
            /\ timers' = timers - 1
            /\ passInfo' = NoPass
            /\ passLog' = <<>>
            /\ createLog' = <<>>
            /\ inWindow' = {}
    /\ UNCHANGED <<workbookData, pendingUpdates, pendingSheetCreations, created,
                   workbookRef, liveSheets, liveCells, activeSheet,
                   creations, ci, sheets, si, updates,
                   nextUid, faults, wiped, applied, delivered, call>>

\* GET /api/pending-sheet-creations is served
GetCreations ==
    /\ pc = "getCreations"
    /\ creations' = pendingSheetCreations
    /\ ci' = 1
    /\ pc' = IF pendingSheetCreations = <<>> THEN "getSheets" ELSE "addSheet"
    /\ delivered' = [k \in DOMAIN delivered |->
                        IF \E i \in DOMAIN pendingSheetCreations :
                              pendingSheetCreations[i].id = k
                        THEN delivered[k] + 1 ELSE delivered[k]]
    /\ UNCHANGED <<workbookData, pendingUpdates, pendingSheetCreations, created,
                   workbookRef, liveSheets, liveCells, activeSheet,
                   sheets, si, updates, timers,
                   nextUid, faults, passLog, passInfo, inWindow, wiped, applied,
                   createLog, call>>

\* the GET fails (it throws, or answers not-ok): checkAndApplyNewSheets returns
GetCreationsFails ==
    /\ pc = "getCreations"
    /\ faults < MaxFaults
    /\ faults' = faults + 1
    /\ pc' = "getSheets"
    /\ UNCHANGED <<workbookData, pendingUpdates, pendingSheetCreations, created,
                   workbookRef, liveSheets, liveCells, activeSheet,
                   creations, ci, sheets, si, updates, timers,
                   nextUid, passLog, passInfo, inWindow, wiped, applied,
                   createLog, delivered, call>>

\* where the creation loop stands after request i of n
CreationPc(i, n) == IF i > n THEN "clearCreations" ELSE "addSheet"

\* the catch, were it around the loop: a failure ends the batch
AbortBatchOnFailure(i, n) == n + 1

\* the request after request i of n when request i threw: the catch is inside
\* the loop, which goes on
AfterCreationFailure(i, n) == i + 1

\* sheetExists is true: the request is skipped
SkipExistingSheet ==
    /\ pc = "addSheet"
    /\ creations[ci].id \in LiveIds
    /\ createLog' = Append(createLog, [id |-> creations[ci].id, did |-> "skipped"])
    /\ ci' = ci + 1
    /\ pc' = CreationPc(ci + 1, Len(creations))
    /\ UNCHANGED <<workbookData, pendingUpdates, pendingSheetCreations, created,
                   workbookRef, liveSheets, liveCells, activeSheet,
                   creations, sheets, si, updates, timers,
                   nextUid, faults, passLog, passInfo, inWindow, wiped, applied,
                   delivered, call>>

\* the name the owner gives a sheet added without one, different per sheet
OwnerDefaultName(id) == "New " \o id

\* workbook.addSheet(sheetInfo.id): the owner appends the sheet and shows it
AddSheet ==
    /\ pc = "addSheet"
    /\ creations[ci].id \notin LiveIds
    /\ liveSheets' = Append(liveSheets, [id |-> creations[ci].id,
                                         name |-> OwnerDefaultName(creations[ci].id)])
    /\ liveCells' = [k \in DOMAIN liveCells \cup {creations[ci].id} |->
                        IF k = creations[ci].id THEN EmptyCells ELSE liveCells[k]]
    /\ activeSheet' = creations[ci].id
    /\ pc' = "nameSheet"
    /\ UNCHANGED <<workbookData, pendingUpdates, pendingSheetCreations, created,
                   workbookRef, creations, ci, sheets, si, updates, timers,
                   nextUid, faults, passLog, passInfo, inWindow, wiped, applied,
                   createLog, delivered, call>>

\* getAllSheets or addSheet throws: caught per request
AddSheetFails ==
    /\ pc = "addSheet"
    /\ creations[ci].id \notin LiveIds
    /\ faults < MaxFaults
    /\ faults' = faults + 1
    /\ createLog' = Append(createLog, [id |-> creations[ci].id, did |-> "failed"])
    /\ ci' = AfterCreationFailure(ci, Len(creations))
    /\ pc' = CreationPc(AfterCreationFailure(ci, Len(creations)), Len(creations))
    /\ UNCHANGED <<workbookData, pendingUpdates, pendingSheetCreations, created,
                   workbookRef, liveSheets, liveCells, activeSheet,
                   creations, sheets, si, updates, timers,
                   nextUid, passLog, passInfo, inWindow, wiped, applied,
                   delivered, call>>

SetLiveName(ls, id, name) ==
    [i \in DOMAIN ls |-> IF ls[i].id = id THEN [id |-> id, name |-> name] ELSE ls[i]]

\* after the 100 ms wait: workbook.setSheetName(sheetInfo.name, {id})
NameSheet ==
    /\ pc = "nameSheet"
    /\ liveSheets' = SetLiveName(liveSheets, creations[ci].id, creations[ci].name)
    /\ createLog' = Append(createLog, [id |-> creations[ci].id, did |-> "added"])
    /\ ci' = ci + 1
    /\ pc' = CreationPc(ci + 1, Len(creations))
    /\ UNCHANGED <<workbookData, pendingUpdates, pendingSheetCreations, created,
                   workbookRef, liveCells, activeSheet,
                   creations, sheets, si, updates, timers,
                   nextUid, faults, passLog, passInfo, inWindow, wiped, applied,
                   delivered, call>>

\* setSheetName throws: caught by its own try, the sheet keeps the owner's name
NameSheetFails ==
    /\ pc = "nameSheet"
    /\ faults < MaxFaults
    /\ faults' = faults + 1
    /\ createLog' = Append(createLog, [id |-> creations[ci].id, did |-> "unnamed"])
    /\ ci' = ci + 1
    /\ pc' = CreationPc(ci + 1, Len(creations))
    /\ UNCHANGED <<workbookData, pendingUpdates, pendingSheetCreations, created,
                   workbookRef, liveSheets, liveCells, activeSheet,
                   creations, sheets, si, updates, timers,
                   nextUid, passLog, passInfo, inWindow, wiped, applied,
                   delivered, call>>

\* DELETE /api/pending-sheet-creations is served: pendingSheetCreations.length = 0
ClearCreations ==
    /\ pc = "clearCreations"
    /\ pendingSheetCreations' = <<>>
    /\ pc' = "getSheets"
    /\ UNCHANGED <<workbookData, pendingUpdates, created,
                   workbookRef, liveSheets, liveCells, activeSheet,
                   creations, ci, sheets, si, updates, timers,
                   nextUid, faults, passLog, passInfo, inWindow, wiped, applied,
                   createLog, delivered, call>>

\* the DELETE throws: caught at the end of checkAndApplyNewSheets
ClearCreationsFails ==
    /\ pc = "clearCreations"
    /\ faults < MaxFaults
    /\ faults' = faults + 1
    /\ pc' = "getSheets"
    /\ UNCHANGED <<workbookData, pendingUpdates, pendingSheetCreations, created,
                   workbookRef, liveSheets, liveCells, activeSheet,
                   creations, ci, sheets, si, updates, timers,
                   nextUid, passLog, passInfo, inWindow, wiped, applied,
                   createLog, delivered, call>>

\* GET /api/sheets is served: the ids of workbookData, in its order
GetSheets ==
    /\ pc = "getSheets"
    /\ sheets' = [i \in 1..Len(workbookData) |-> workbookData[i].id]
    /\ si' = 1
    /\ IF workbookData = <<>> THEN EndCycle ELSE pc' = "getPending" /\ UNCHANGED timers
    /\ UNCHANGED <<workbookData, pendingUpdates, pendingSheetCreations, created,
                   workbookRef, liveSheets, liveCells, activeSheet,
                   creations, ci, updates,
                   nextUid, faults, passLog, passInfo, inWindow, wiped, applied,
                   createLog, delivered, call>>

\* getAllSheets() throws: poll's catch ends the cycle
GetSheetsFails ==
    /\ pc = "getSheets"
    /\ faults < MaxFaults
    /\ faults' = faults + 1
    /\ EndCycle
    /\ UNCHANGED <<workbookData, pendingUpdates, pendingSheetCreations, created,
                   workbookRef, liveSheets, liveCells, activeSheet,
                   creations, ci, sheets, si, updates,
                   nextUid, passLog, passInfo, inWindow, wiped, applied,
                   createLog, delivered, call>>

\* the GET is served, were poll to clear the queue also after an empty list
GetPendingClearsEmpty ==
    /\ pc = "getPending"
    /\ updates' = QueueOf(pendingUpdates, sheets[si])
    /\ IF QueueOf(pendingUpdates, sheets[si]) = <<>>
       THEN pc' = "clearPending" /\ UNCHANGED <<passInfo, passLog, inWindow, si, timers>>
       ELSE /\ pc' = "applyStart"
            /\ passInfo' = [sheet |-> sheets[si], phase |-> "drained",
                            uids |-> UidSeq(QueueOf(pendingUpdates, sheets[si])),
                            failed |-> {}, enq |-> FALSE, missing |-> FALSE]
            /\ passLog' = <<>>
            /\ inWindow' = {}
            /\ UNCHANGED <<si, timers>>
    /\ UNCHANGED <<workbookData, pendingUpdates, pendingSheetCreations, created,
                   workbookRef, liveSheets, liveCells, activeSheet,
                   creations, ci, sheets,
                   nextUid, faults, wiped, applied, createLog, delivered, call>>

\* GET /api/sheet/:id/pending-updates is served for sheets[si]
GetPending ==
    /\ pc = "getPending"
    /\ updates' = QueueOf(pendingUpdates, sheets[si])
    /\ IF QueueOf(pendingUpdates, sheets[si]) = <<>>
       THEN NextSheet /\ UNCHANGED <<passInfo, passLog, inWindow>>
       ELSE /\ pc' = "applyStart"
            /\ passInfo' = [sheet |-> sheets[si], phase |-> "drained",
                            uids |-> UidSeq(QueueOf(pendingUpdates, sheets[si])),
                            failed |-> {}, enq |-> FALSE, missing |-> FALSE]
            /\ passLog' = <<>>
            /\ inWindow' = {}
            /\ UNCHANGED <<si, timers>>
    /\ UNCHANGED <<workbookData, pendingUpdates, pendingSheetCreations, created,
                   workbookRef, liveSheets, liveCells, activeSheet,
                   creations, ci, sheets,
                   nextUid, faults, wiped, applied, createLog, delivered, call>>

\* the GET answers not-ok: `continue`
GetPendingNotOk ==
    /\ pc = "getPending"
    /\ faults < MaxFaults
    /\ faults' = faults + 1
    /\ NextSheet
    /\ UNCHANGED <<workbookData, pendingUpdates, pendingSheetCreations, created,
                   workbookRef, liveSheets, liveCells, activeSheet,
                   creations, ci, sheets, updates,
                   nextUid, passLog, passInfo, inWindow, wiped, applied,
                   createLog, delivered, call>>

\* the GET throws: poll's catch ends the cycle
GetPendingFails ==
    /\ pc = "getPending"
    /\ faults < MaxFaults
    /\ faults' = faults + 1
    /\ EndCycle
    /\ UNCHANGED <<workbookData, pendingUpdates, pendingSheetCreations, created,
                   workbookRef, liveSheets, liveCells, activeSheet,
                   creations, ci, sheets, si, updates,
                   nextUid, passLog, passInfo, inWindow, wiped, applied,
                   createLog, delivered, call>>

----------------------------------------------------------------------------
(* applyUpdates. *)

\* what the loop hands to setCellValue for an update: the formula if truthy,
\* else the value unless null or undefined, else nothing (Undef)
Payload(u) ==
    IF Truthy(u.formula) THEN u.formula
    ELSE IF ~IsNullish(u.value) THEN u.value
    ELSE Undef

\* the owner's write, were it to insert the cell and shift the cells at and
\* below it one row down
SetCellInsert(cells, id, row, col, payload) ==
    [cells EXCEPT ![id] =
        [rc \in {<<row, col>>}
                 \cup {x \in DOMAIN cells[id] : ~(x[2] = col /\ x[1] >= row)}
                 \cup {<<x[1] + 1, col>> : x \in {y \in DOMAIN cells[id] :
                                                     y[2] = col /\ y[1] >= row}} |->
            IF rc = <<row, col>> THEN payload
            ELSE IF rc[2] = col /\ rc[1] > row THEN cells[id][<<rc[1] - 1, col>>]
            ELSE cells[id][rc]]]

\* the owner's setCellValue(row, col, payload) on sheet id
SetCell(cells, id, row, col, payload) ==
    [cells EXCEPT ![id] =
        [rc \in DOMAIN cells[id] \cup {<<row, col>>} |->
            IF rc = <<row, col>> THEN payload ELSE cells[id][rc]]]

\* How one write ends: "id" (the call with {id} succeeds), "fallback" (it
\* throws and the call on the active sheet succeeds), "rejected" (both throw).
WriteOutcomes == {"id", "fallback", "rejected"}

\* the loop, were it to walk the updates newest first
RECURSIVE ApplyAllNewestFirst(_, _, _, _, _, _, _)
ApplyAllNewestFirst(cells, active, sheetId, us, outcomes, i, log) ==
    IF i > Len(us) THEN [cells |-> cells, log |-> log]
    ELSE LET k       == Len(us) + 1 - i
             payload == Payload(us[k])
             how     == IF payload = Undef THEN "nowrite" ELSE outcomes[k]
             target  == CASE how = "id"       -> sheetId
                          [] how = "fallback" -> active
                          [] OTHER            -> ""
             written == IF how \in {"id", "fallback"}
                        THEN SetCell(cells, target, us[k].row, us[k].col, payload)
                        ELSE cells
         IN  ApplyAllNewestFirst(written, active, sheetId, us, outcomes, i + 1,
                      Append(log, [uid |-> us[k].uid, how |-> how, target |-> target]))

\* the loop, were its try/catch around it: the first rejected write ends it
RECURSIVE ApplyAllUntilRejected(_, _, _, _, _, _, _)
ApplyAllUntilRejected(cells, active, sheetId, us, outcomes, i, log) ==
    IF i > Len(us) THEN [cells |-> cells, log |-> log]
    ELSE LET payload == Payload(us[i])
             how     == IF payload = Undef THEN "nowrite" ELSE outcomes[i]
             target  == CASE how = "id"       -> sheetId
                          [] how = "fallback" -> active
                          [] OTHER            -> ""
             written == IF how \in {"id", "fallback"}
                        THEN SetCell(cells, target, us[i].row, us[i].col, payload)
                        ELSE cells
             logged  == Append(log, [uid |-> us[i].uid, how |-> how, target |-> target])
         IN  IF how = "rejected" THEN [cells |-> cells, log |-> logged]
             ELSE ApplyAllUntilRejected(written, active, sheetId, us, outcomes, i + 1, logged)

\* `for (const update of updates)` from index i on: the cells and the log of
\* the pass.  The try/catch is inside the loop.
RECURSIVE ApplyAll(_, _, _, _, _, _, _)
ApplyAll(cells, active, sheetId, us, outcomes, i, log) ==
    IF i > Len(us) THEN [cells |-> cells, log |-> log]
    ELSE LET payload == Payload(us[i])
             how     == IF payload = Undef THEN "nowrite" ELSE outcomes[i]
             target  == CASE how = "id"       -> sheetId
                          [] how = "fallback" -> active
                          [] OTHER            -> ""
             written == IF how \in {"id", "fallback"}
                        THEN SetCell(cells, target, us[i].row, us[i].col, payload)
                        ELSE cells
         IN  ApplyAll(written, active, sheetId, us, outcomes, i + 1,
                      Append(log, [uid |-> us[i].uid, how |-> how, target |-> target]))

\* poll, were it to keep the queue of a pass that had failures
ClearsOnlyCleanPass(errorCount) == errorCount = 0

\* poll clears the sheet's queue after applyUpdates returns, whatever
\* errorCount is
ClearsAfterApply(errorCount) == TRUE

Rejected(log) == {log[i].uid : i \in {j \in DOMAIN log : log[j].how = "rejected"}}
Written(log)  == {log[i].uid : i \in {j \in DOMAIN log : log[j].how \in {"id", "fallback"}}}

\* the loop of applyUpdates with the active sheet `active`, after `spent`
\* failures of this step
RunApplyLoop(active, spent) ==
    \E outcomes \in [1..Len(updates) -> WriteOutcomes] :
        LET nf  == Cardinality({i \in 1..Len(updates) :
                                   outcomes[i] # "id" /\ Payload(updates[i]) # Undef})
            out == ApplyAll(liveCells, active, sheets[si], updates, outcomes, 1, <<>>)
        IN  /\ \A i \in 1..Len(updates) : Payload(updates[i]) = Undef => outcomes[i] = "id"
            /\ faults + spent + nf <= MaxFaults
            /\ faults' = faults + spent + nf
            /\ liveCells' = out.cells
            /\ passLog' = out.log
            /\ applied' = applied \cup Written(out.log)
            /\ passInfo' = [passInfo EXCEPT !.phase = "applied", !.failed = Rejected(out.log)]
            /\ IF ClearsAfterApply(Cardinality(Rejected(out.log)))
               THEN pc' = "clearPending" /\ UNCHANGED <<si, timers>>
               ELSE NextSheet

\* applyUpdates returns before the loop: no workbook ref, or the sheet is not
\* in the live workbook
ApplyReturns ==
    /\ pc = "applyStart"
    /\ ~workbookRef \/ sheets[si] \notin LiveIds
    /\ passInfo' = [passInfo EXCEPT !.phase = "returned",
                                    !.missing = workbookRef /\ sheets[si] \notin LiveIds]
    /\ pc' = "clearPending"
    /\ UNCHANGED <<workbookData, pendingUpdates, pendingSheetCreations, created,
                   workbookRef, liveSheets, liveCells, activeSheet,
                   creations, ci, sheets, si, updates, timers,
                   nextUid, faults, passLog, inWindow, wiped, applied,
                   createLog, delivered, call>>

\* getAllSheets throws: applyUpdates' outer catch, nothing is applied
ApplyThrows ==
    /\ pc = "applyStart"
    /\ workbookRef
    /\ faults < MaxFaults
    /\ faults' = faults + 1
    /\ passInfo' = [passInfo EXCEPT !.phase = "returned"]
    /\ pc' = "clearPending"
    /\ UNCHANGED <<workbookData, pendingUpdates, pendingSheetCreations, created,
                   workbookRef, liveSheets, liveCells, activeSheet,
                   creations, ci, sheets, si, updates, timers,
                   nextUid, passLog, inWindow, wiped, applied,
                   createLog, delivered, call>>

\* workbook.activateSheet({id}) succeeds; the 100 ms wait follows
ActivateSheet ==
    /\ pc = "applyStart"
    /\ workbookRef
    /\ sheets[si] \in LiveIds
    /\ activeSheet' = sheets[si]
    /\ pc' = "applyLoop"
    /\ UNCHANGED <<workbookData, pendingUpdates, pendingSheetCreations, created,
                   workbookRef, liveSheets, liveCells,
                   creations, ci, sheets, si, updates, timers,
                   nextUid, faults, passLog, passInfo, inWindow, wiped, applied,
                   createLog, delivered, call>>

\* activateSheet throws: "continue anyway", the loop runs without the wait
ActivateSheetFails ==
    /\ pc = "applyStart"
    /\ workbookRef
    /\ sheets[si] \in LiveIds
    /\ RunApplyLoop(activeSheet, 1)
    /\ UNCHANGED <<workbookData, pendingUpdates, pendingSheetCreations, created,
                   workbookRef, liveSheets, activeSheet,
                   creations, ci, sheets, updates,
                   nextUid, inWindow, wiped, createLog, delivered, call>>

\* the wait is over: the loop over the drained updates, in one step
ApplyLoop ==
    /\ pc = "applyLoop"
    /\ RunApplyLoop(activeSheet, 0)
    /\ UNCHANGED <<workbookData, pendingUpdates, pendingSheetCreations, created,
                   workbookRef, liveSheets, activeSheet,
                   creations, ci, sheets, updates,
                   nextUid, inWindow, wiped, createLog, delivered, call>>

\* DELETE /api/sheet/:id/pending-updates is served for sheets[si]
ClearPending ==
    /\ pc = "clearPending"
    /\ pendingUpdates' = DeleteQueue(pendingUpdates, sheets[si])
    /\ wiped' = wiped \cup inWindow
    /\ inWindow' = {}
    /\ passInfo' = [passInfo EXCEPT !.phase = IF @ = "applied" THEN "cleared"
                                               ELSE "clearedUnapplied"]
    /\ NextSheet
    /\ UNCHANGED <<workbookData, pendingSheetCreations, created,
                   workbookRef, liveSheets, liveCells, activeSheet,
                   creations, ci, sheets, updates,
                   nextUid, faults, passLog, applied, createLog, delivered, call>>

\* the DELETE throws: poll's catch ends the cycle
ClearPendingFails ==
    /\ pc = "clearPending"
    /\ faults < MaxFaults
    /\ faults' = faults + 1
    /\ inWindow' = {}
    /\ passInfo' = [passInfo EXCEPT !.phase = "clearFailed"]
    /\ EndCycle
    /\ UNCHANGED <<workbookData, pendingUpdates, pendingSheetCreations, created,
                   workbookRef, liveSheets, liveCells, activeSheet,
                   creations, ci, sheets, si, updates,
                   nextUid, passLog, wiped, applied, createLog, delivered, call>>

----------------------------------------------------------------------------
(* The system: producer requests, the App's syncs, the poller. *)

A1        == <<"A", "1">>
BadRef    == <<"1", "A">>
ValX      == Str(<<"x">>)
FormulaB1 == Str(<<"=", "B", "1">>)

PointBodies ==
    {[cell |-> c, value |-> vf[1], formula |-> vf[2]] :
        c \in {A1, BadRef}, vf \in {<<ValX, Undef>>, <<Undef, FormulaB1>>}}

BatchBodies ==
    {[isArray |-> TRUE,
      cells   |-> <<[cell |-> A1, value |-> ValX, formula |-> Undef],
                    [cell |-> A1, value |-> Undef, formula |-> FormulaB1]>>],
     [isArray |-> TRUE,
      cells   |-> <<[cell |-> BadRef, value |-> ValX, formula |-> Undef],
                    [cell |-> A1, value |-> ValX, formula |-> Undef]>>],
     [isArray |-> FALSE, cells |-> <<>>]}

Row1(content) == Obj(<<[key |-> <<"1">>, val |-> Obj(<<[key |-> <<"A">>, val |-> content]>>)]>>)

TableBodies ==
    {[values_table |-> Row1(ValX), formulas_table |-> Row1(FormulaB1)],
     [values_table |-> Row1(ValX), formulas_table |-> Null],
     [values_table |-> Null, formulas_table |-> Null]}

CreateBodies == {[name |-> "", order |-> Undef]}

\* The update side: the enqueue handlers and the poller's pass over the
\* sheets.  It starts where a creation cycle whose addSheet threw has left
\* the system (ReachedCreatedButNotLive): sheet_1 is in the held snapshot
\* and not in the live workbook, and the creation queue is empty.
InitUpdates ==
    /\ workbookData = <<[id |-> InitialSheetId, name |-> "Sheet1", order |-> 0],
                        [id |-> "sheet_1", name |-> "Sheet2", order |-> 1]>>
    /\ pendingUpdates = [k \in {"sheet_1"} |-> <<>>]
    /\ pendingSheetCreations = <<>>
    /\ created = {"sheet_1"}
    /\ workbookRef = TRUE
    /\ liveSheets = <<[id |-> InitialSheetId, name |-> "Sheet1"]>>
    /\ liveCells = [k \in {InitialSheetId} |-> EmptyCells]
    /\ activeSheet = InitialSheetId
    /\ pc = "idle"
    /\ creations = <<>>
    /\ ci = 1
    /\ sheets = <<>>
    /\ si = 1
    /\ updates = <<>>
    /\ timers = 1
    /\ nextUid = 1
    /\ faults = 0
    /\ passLog = <<>>
    /\ passInfo = NoPass
    /\ inWindow = {}
    /\ wiped = {}
    /\ applied = {}
    /\ createLog = <<>>
    /\ delivered = [k \in {"sheet_1"} |-> 1]
    /\ call = NoCall

NextUpdates ==
    \/ \E id \in KnownIds, body \in PointBodies : PostCell(id, body)
    \/ \E id \in KnownIds, body \in BatchBodies : PostCells(id, body)
    \/ \E id \in KnownIds, body \in TableBodies : PostFromTable(id, body)
    \/ SetWorkbookRef
    \/ PollTick
    \/ GetCreations
    \/ GetSheets
    \/ GetSheetsFails
    \/ GetPending
    \/ GetPendingNotOk
    \/ GetPendingFails
    \/ ApplyReturns
    \/ ApplyThrows
    \/ ActivateSheet
    \/ ActivateSheetFails
    \/ ApplyLoop
    \/ ClearPending
    \/ ClearPendingFails

SpecUpdates == InitUpdates /\ [][NextUpdates]_vars

\* The update side with a server that serves every clear (SpecClearServed):
\* the other requests and the owner's calls can still fail.
NextClearServed ==
    \/ \E id \in KnownIds, body \in PointBodies : PostCell(id, body)
    \/ SetWorkbookRef
    \/ PollTick
    \/ GetCreations
    \/ GetSheets
    \/ GetSheetsFails
    \/ GetPending
    \/ GetPendingNotOk
    \/ GetPendingFails
    \/ ApplyReturns
    \/ ApplyThrows
    \/ ActivateSheet
    \/ ActivateSheetFails
    \/ ApplyLoop
    \/ ClearPending

SpecClearServed == InitUpdates /\ [][NextClearServed]_vars

\* The sheet side: creation requests, the App's syncs and the poller's
\* creation pass, from the state after construction.
NextSheets ==
    \/ \E body \in CreateBodies : PostSheets(body.name, body.order)
    \/ OnDataChange
    \/ SetWorkbookRef
    \/ PollTick
    \/ GetCreations
    \/ GetCreationsFails
    \/ SkipExistingSheet
    \/ AddSheet
    \/ AddSheetFails
    \/ NameSheet
    \/ NameSheetFails
    \/ ClearCreations
    \/ ClearCreationsFails
    \/ GetSheets
    \/ GetSheetsFails
    \/ GetPending
    \/ GetPendingNotOk
    \/ GetPendingFails

SpecSheets == Init /\ [][NextSheets]_vars

\* The whole client cycle, creation pass and sheet passes, against a server
\* that takes single-cell updates meanwhile.  It starts where the App's first
\* sync and one POST /api/sheets have left the system
\* (ReachedOneCreationQueued): sheet_1 is in the held snapshot and in the
\* creation queue, and not yet in the live workbook.
InitCycle ==
    /\ workbookData = <<[id |-> InitialSheetId, name |-> "Sheet1", order |-> 0],
                        [id |-> "sheet_1", name |-> "Sheet2", order |-> 1]>>
    /\ pendingUpdates = [k \in {"sheet_1"} |-> <<>>]
    /\ pendingSheetCreations = <<[id |-> "sheet_1", name |-> "Sheet2", order |-> 1]>>
    /\ created = {"sheet_1"}
    /\ workbookRef = TRUE
    /\ liveSheets = <<[id |-> InitialSheetId, name |-> "Sheet1"]>>
    /\ liveCells = [k \in {InitialSheetId} |-> EmptyCells]
    /\ activeSheet = InitialSheetId
    /\ pc = "idle"
    /\ creations = <<>>
    /\ ci = 1
    /\ sheets = <<>>
    /\ si = 1
    /\ updates = <<>>
    /\ timers = 1
    /\ nextUid = 1
    /\ faults = 0
    /\ passLog = <<>>
    /\ passInfo = NoPass
    /\ inWindow = {}
    /\ wiped = {}
    /\ applied = {}
    /\ createLog = <<>>
    /\ delivered = [k \in {"sheet_1"} |-> 0]
    /\ call = NoCall

CycleBodies == {[cell |-> A1, value |-> ValX, formula |-> Undef]}

NextCycle ==
    \/ \E id \in KnownIds, body \in CycleBodies : PostCell(id, body)
    \/ SetWorkbookRef
    \/ PollTick
    \/ GetCreations
    \/ GetCreationsFails
    \/ SkipExistingSheet
    \/ AddSheet
    \/ AddSheetFails
    \/ NameSheet
    \/ NameSheetFails
    \/ ClearCreations
    \/ ClearCreationsFails
    \/ GetSheets
    \/ GetSheetsFails
    \/ GetPending
    \/ GetPendingNotOk
    \/ GetPendingFails
    \/ ApplyReturns
    \/ ApplyThrows
    \/ ActivateSheet
    \/ ActivateSheetFails
    \/ ApplyLoop
    \/ ClearPending
    \/ ClearPendingFails

SpecCycle == InitCycle /\ [][NextCycle]_vars

\* the steps of the poller: a timer firing, an answer of the server (or its
\* failure), a call of the document owner returning (or throwing)
PollerStep ==
    \/ PollTick
    \/ GetCreations
    \/ GetCreationsFails
    \/ SkipExistingSheet
    \/ AddSheet
    \/ AddSheetFails
    \/ NameSheet
    \/ NameSheetFails
    \/ ClearCreations
    \/ ClearCreationsFails
    \/ GetSheets
    \/ GetSheetsFails
    \/ GetPending
    \/ GetPendingNotOk
    \/ GetPendingFails
    \/ ApplyReturns
    \/ ApplyThrows
    \/ ActivateSheet
    \/ ActivateSheetFails
    \/ ApplyLoop
    \/ ClearPending
    \/ ClearPendingFails

\* The cycle with an event loop that runs pending callbacks and requests
\* that are answered or fail: a poller step that stays possible is taken.
SpecCycleFair == SpecCycle /\ WF_vars(PollerStep)

----------------------------------------------------------------------------
(* Queues left to the poller (SpecDrainFair): the server holds s0 and       *)
(* sheet_1 and a queue for each, nothing is enqueued any more, requests are *)
(* answered, the owner's calls succeed and the workbook stays available.    *)

MaxQueued == 2     \* updates queued per sheet at the start

\* the updates POST /cell queues for A1: a value, a formula
QueuedPool ==
    {PointUpdate(parseCellReference(A1), b) : b \in {x \in PointBodies : x.cell = A1}}

QueuedLists == UNION {[1..n -> QueuedPool] : n \in 0..MaxQueued}

\* where sheet_1 stands: in the live workbook, in the creation queue, or in
\* neither (its addSheet threw and the creation queue was cleared)
Sheet1States == {"live", "pending", "missing"}

InitDrain ==
    /\ workbookData = <<[id |-> InitialSheetId, name |-> "Sheet1", order |-> 0],
                        [id |-> "sheet_1", name |-> "Sheet2", order |-> 1]>>
    /\ created = {"sheet_1"}
    /\ \E q0 \in QueuedLists, q1 \in QueuedLists :
          /\ pendingUpdates = [k \in {InitialSheetId, "sheet_1"} |->
                                  IF k = InitialSheetId THEN Stamp(q0, 1)
                                  ELSE Stamp(q1, Len(q0) + 1)]
          /\ nextUid = Len(q0) + Len(q1) + 1
    /\ \E st \in Sheet1States :
          /\ pendingSheetCreations =
                IF st = "pending"
                THEN <<[id |-> "sheet_1", name |-> "Sheet2", order |-> 1]>>
                ELSE <<>>
          /\ liveSheets =
                IF st = "live"
                THEN <<[id |-> InitialSheetId, name |-> "Sheet1"],
                       [id |-> "sheet_1", name |-> "Sheet2"]>>
                ELSE <<[id |-> InitialSheetId, name |-> "Sheet1"]>>
          /\ liveCells =
                IF st = "live"
                THEN [k \in {InitialSheetId, "sheet_1"} |-> EmptyCells]
                ELSE [k \in {InitialSheetId} |-> EmptyCells]
          /\ delivered = [k \in {"sheet_1"} |-> IF st = "pending" THEN 0 ELSE 1]
    /\ workbookRef = TRUE
    /\ activeSheet = InitialSheetId
    /\ pc = "idle"
    /\ creations = <<>>
    /\ ci = 1
    /\ sheets = <<>>
    /\ si = 1
    /\ updates = <<>>
    /\ timers = 1
    /\ faults = MaxFaults
    /\ passLog = <<>>
    /\ passInfo = NoPass
    /\ inWindow = {}
    /\ wiped = {}
    /\ applied = {}
    /\ createLog = <<>>
    /\ call = NoCall

NextDrain ==
    \/ PollTick
    \/ GetCreations
    \/ AddSheet
    \/ NameSheet
    \/ ClearCreations
    \/ GetSheets
    \/ GetPending
    \/ ApplyReturns
    \/ ActivateSheet
    \/ ApplyLoop
    \/ ClearPending

SpecDrainFair == InitDrain /\ [][NextDrain]_vars /\ WF_vars(PollerStep)

----------------------------------------------------------------------------
(* The table handler as a function of its request body (SpecTables). *)

MaxTableCells == 2     \* cells of the two tables of one request, together

RowKeys   == {<<"1">>, <<"'", "1", "'">>, <<"\"", "2", "\"">>, <<"0">>, <<"x">>}
ColKeys   == {<<"A">>, <<"B">>}
Contents  == {ValX, FormulaB1, Num(7), Null}

TableEntry == [r : RowKeys, c : ColKeys, v : Contents]

\* the cell lists of n entries, no (row key, column key) twice
CellLists(n) ==
    {f \in [1..n -> TableEntry] :
        \A i, j \in DOMAIN f : (f[i].r = f[j].r /\ f[i].c = f[j].c) => i = j}

\* the row keys of a cell list in the order they first occur
RECURSIVE RowKeysOf(_, _)
RowKeysOf(f, i) ==
    IF i > Len(f) THEN <<>>
    ELSE IF \E k \in 1..(i - 1) : f[k].r = f[i].r THEN RowKeysOf(f, i + 1)
    ELSE <<f[i].r>> \o RowKeysOf(f, i + 1)

ColsOf(f, rowKey) ==
    LET es == SelectSeq(f, LAMBDA e : e.r = rowKey)
    IN  Obj([j \in 1..Len(es) |-> [key |-> es[j].c, val |-> es[j].v]])

\* the JSON object whose properties a cell list spells out
TableOf(f) ==
    LET ks == RowKeysOf(f, 1)
    IN  Obj([i \in 1..Len(ks) |-> [key |-> ks[i], val |-> ColsOf(f, ks[i])]])

\* the tables of n cells a request can carry; a table may also be absent
TableInputs(n) ==
    (IF n = 0 THEN {Null} ELSE {}) \cup {TableOf(f) : f \in CellLists(n)}

\* one POST /from-table request for a sheet of the snapshot: what the handler
\* computes from the body
FromTableCall ==
    /\ call.op = "none"
    /\ \E n \in 0..MaxTableCells : \E m \in 0..(MaxTableCells - n) :
          \E vt \in TableInputs(n), ft \in TableInputs(m) :
             call' = [op |-> "from-table", values_table |-> vt, formulas_table |-> ft,
                      updates |-> TableUpdates(vt, ft)]
    /\ UNCHANGED <<workbookData, pendingUpdates, pendingSheetCreations, created,
                   workbookRef, liveSheets, liveCells, activeSheet,
                   pc, creations, ci, sheets, si, updates, timers,
                   nextUid, faults, passLog, passInfo, inWindow, wiped, applied,
                   createLog, delivered>>

SpecTables == Init /\ [][FromTableCall]_vars

\* The order of the updates of one request (SpecTableOrder): each table has
\* up to MaxOrderCells cells of column A, in rows 1 and 2, row 1 also under a
\* quoted key.
MaxOrderCells == 2     \* cells of each table of one request

OrderRowKeys == {<<"1">>, <<"'", "1", "'">>, <<"2">>}

OrderEntry == [r : OrderRowKeys, c : {<<"A">>}, v : {ValX, FormulaB1}]

OrderLists(n) ==
    {f \in [1..n -> OrderEntry] :
        \A i, j \in DOMAIN f : (f[i].r = f[j].r /\ f[i].c = f[j].c) => i = j}

OrderTables ==
    {Null} \cup UNION {{TableOf(f) : f \in OrderLists(n)} : n \in 1..MaxOrderCells}

TableOrderCall ==
    /\ call.op = "none"
    /\ \E vt \in OrderTables, ft \in OrderTables :
          call' = [op |-> "from-table", values_table |-> vt, formulas_table |-> ft,
                   updates |-> TableUpdates(vt, ft)]
    /\ UNCHANGED <<workbookData, pendingUpdates, pendingSheetCreations, created,
                   workbookRef, liveSheets, liveCells, activeSheet,
                   pc, creations, ci, sheets, si, updates, timers,
                   nextUid, faults, passLog, passInfo, inWindow, wiped, applied,
                   createLog, delivered>>

SpecTableOrder == Init /\ [][TableOrderCall]_vars

----------------------------------------------------------------------------
(* One update applied to a live document by two passes of applyUpdates, as  *)
(* when a queue that was not cleared is drained again (SpecApply).          *)

MaxDocRow == 1     \* the documents and the updates use rows 0..MaxDocRow

DocSheets == {InitialSheetId, "sheet_1"}

\* the cells of one sheet: any rows of column A hold 7
SheetCells ==
    UNION {[{<<r, 0>> : r \in R} -> {Num(7)}] : R \in SUBSET (0..MaxDocRow)}

Documents == [DocSheets -> SheetCells]

\* a queued update of column A: value and formula as a handler can leave them
\* or as a client can have sent them
ApplyInputs ==
    {[row |-> r, col |-> 0, value |-> v, formula |-> f, cell |-> <<"A">>, uid |-> 1] :
        r \in 0..MaxDocRow,
        v \in {ValX, Num(7), Num(0), Null, Undef},
        f \in {FormulaB1, Str(<<>>), Null}}

\* applyUpdates(sheetId, [u]) runs twice on the document `before`; the owner
\* answers the first write as o1 and the second as o2
ApplyTwiceCall ==
    /\ call.op = "none"
    /\ \E before \in Documents, u \in ApplyInputs, sheetId \in DocSheets,
          active \in DocSheets, o1 \in WriteOutcomes, o2 \in WriteOutcomes :
          LET once  == ApplyAll(before, active, sheetId, <<u>>, <<o1>>, 1, <<>>)
              twice == ApplyAll(once.cells, active, sheetId, <<u>>, <<o2>>, 1, <<>>)
          IN  call' = [op |-> "apply-twice", update |-> u, sheetId |-> sheetId,
                       before |-> before, once |-> once.cells, twice |-> twice.cells,
                       first |-> once.log[1], second |-> twice.log[1]]
    /\ UNCHANGED <<workbookData, pendingUpdates, pendingSheetCreations, created,
                   workbookRef, liveSheets, liveCells, activeSheet,
                   pc, creations, ci, sheets, si, updates, timers,
                   nextUid, faults, passLog, passInfo, inWindow, wiped, applied,
                   createLog, delivered>>

SpecApply == Init /\ [][ApplyTwiceCall]_vars

----------------------------------------------------------------------------
(* The initial sync of setupDataSync (SpecInitialSync).  `call` holds the   *)
(* closure's state: the argument of the scheduled tryInitialSync, whether   *)
(* its timer is pending, the delays of the timers set so far, the snapshots *)
(* sent and what each attempt found.                                        *)

\* `if (attempts < 5)`, were it `attempts < 6`
RetryUpToSix(attempts) == attempts < 6

\* `if (attempts < 5)`
RetryAllowed(attempts) == attempts < 5

\* 500 * (attempts + 1)
RetryDelay(attempts) == 500 * (attempts + 1)

\* setTimeout(() => tryInitialSync(), 500) at the end of setupDataSync
InitInitialSync ==
    /\ workbookData = <<>>
    /\ pendingUpdates = [k \in {} |-> <<>>]
    /\ pendingSheetCreations = <<>>
    /\ created = {}
    /\ workbookRef = FALSE
    /\ liveSheets = <<[id |-> InitialSheetId, name |-> "Sheet1"]>>
    /\ liveCells = [k \in {InitialSheetId} |-> EmptyCells]
    /\ activeSheet = InitialSheetId
    /\ pc = "idle"
    /\ creations = <<>>
    /\ ci = 1
    /\ sheets = <<>>
    /\ si = 1
    /\ updates = <<>>
    /\ timers = 1
    /\ nextUid = 1
    /\ faults = 0
    /\ passLog = <<>>
    /\ passInfo = NoPass
    /\ inWindow = {}
    /\ wiped = {}
    /\ applied = {}
    /\ createLog = <<>>
    /\ delivered = [k \in {} |-> 0]
    /\ call = [op |-> "tryInitialSync", attempts |-> 0, timer |-> TRUE,
               delays |-> <<500>>, sent |-> 0, found |-> <<>>]

\* what one run of tryInitialSync can find: no workbook ref, getAllSheets
\* throwing, an empty list, a list with sheets
SyncFindings == IF workbookRef THEN {"throws", "empty", "sheets"} ELSE {"noRef"}

\* the pending timer fires: tryInitialSync(call.attempts) runs.  With sheets
\* it hands them to onDataChange, which posts them (the client is connected
\* when setupDataSync runs), and returns; otherwise it retries if allowed.
TryInitialSync ==
    /\ call.op = "tryInitialSync"
    /\ call.timer
    /\ \E f \in SyncFindings :
          IF f = "sheets"
          THEN /\ workbookData' = ReplaceWorkbook(workbookData, LiveSnapshot)
               /\ call' = [call EXCEPT !.timer = FALSE,
                                       !.sent = @ + 1,
                                       !.found = Append(@, f)]
          ELSE /\ UNCHANGED workbookData
               /\ call' = IF RetryAllowed(call.attempts)
                          THEN [call EXCEPT !.attempts = @ + 1,
                                            !.delays = Append(@, RetryDelay(call.attempts)),
                                            !.found = Append(@, f)]
                          ELSE [call EXCEPT !.timer = FALSE,
                                            !.found = Append(@, f)]
    /\ UNCHANGED <<pendingUpdates, pendingSheetCreations, created,
                   workbookRef, liveSheets, liveCells, activeSheet,
                   pc, creations, ci, sheets, si, updates, timers,
                   nextUid, faults, passLog, passInfo, inWindow, wiped, applied,
                   createLog, delivered>>

NextInitialSync == TryInitialSync \/ SetWorkbookRef

SpecInitialSync == InitInitialSync /\ [][NextInitialSync]_vars

----------------------------------------------------------------------------
(* Creation requests alone, from any small snapshot with distinct names     *)
(* (SpecNames).                                                             *)

NamePool == {"Sheet1", "Sheet2", "Sheet11", "Data"}

\* snapshots of up to two sheets; the order fields of two sheets follow their
\* positions or are swapped
NameSnapshots ==
    {<<>>}
    \cup {<<[id |-> "s0", name |-> a, order |-> 0]>> : a \in NamePool}
    \cup {<<[id |-> "s0", name |-> ab[1], order |-> o],
            [id |-> "s1", name |-> ab[2], order |-> 1 - o]>> :
             ab \in {x \in NamePool \X NamePool : x[1] # x[2]}, o \in {0, 1}}

InitNames ==
    /\ workbookData \in NameSnapshots
    /\ pendingUpdates = [k \in {} |-> <<>>]
    /\ pendingSheetCreations = <<>>
    /\ created = {}
    /\ workbookRef = TRUE
    /\ liveSheets = <<[id |-> InitialSheetId, name |-> "Sheet1"]>>
    /\ liveCells = [k \in {InitialSheetId} |-> EmptyCells]
    /\ activeSheet = InitialSheetId
    /\ pc = "idle"
    /\ creations = <<>>
    /\ ci = 1
    /\ sheets = <<>>
    /\ si = 1
    /\ updates = <<>>
    /\ timers = 1
    /\ nextUid = 1
    /\ faults = 0
    /\ passLog = <<>>
    /\ passInfo = NoPass
    /\ inWindow = {}
    /\ wiped = {}
    /\ applied = {}
    /\ createLog = <<>>
    /\ delivered = [k \in {} |-> 0]
    /\ call = NoCall

NameBodies == {[name |-> n, order |-> o] : n \in {"", "Sheet1", "Data"},
                                           o \in {Undef, Num(0), Num(1), Num(5)}}

\* POST /api/sheets, with the request and its response kept in `call`
RequestCreate(name, order) ==
    /\ PostSheetsHandler(name, order)
    /\ call' = [op |-> "create", name |-> name, order |-> order,
                before |-> workbookData,
                sheet |-> NewSheet(workbookData, created, name, order)]

NextNames == \E body \in NameBodies : RequestCreate(body.name, body.order)

SpecNames == InitNames /\ [][NextNames]_vars

----------------------------------------------------------------------------
(* The enqueue handlers request by request, against the snapshot the App    *)
(* syncs at its start (SpecEnqueue).                                        *)

MaxBatch == 3          \* items of one POST /cells request

LowerB2 == <<"b", "2">>
A0      == <<"A", "0">>
NoRef   == <<>>

SheetIds == {InitialSheetId, "ghost"}     \* "ghost" is in no snapshot

EnqPointBodies ==
    {[cell |-> c, value |-> ValX, formula |-> Undef] : c \in {A1, LowerB2, A0, BadRef, NoRef}}
    \cup {[cell |-> A1, value |-> Undef, formula |-> FormulaB1],
          [cell |-> A1, value |-> ValX, formula |-> FormulaB1]}

BatchItems == {[cell |-> c, value |-> ValX, formula |-> Undef] : c \in {A1, A0, BadRef, NoRef}}

\* every batch of up to MaxBatch items, and a body whose cells is no array
EnqBatchBodies ==
    {[isArray |-> TRUE, cells |-> cs] : cs \in UNION {[1..n -> BatchItems] : n \in 0..MaxBatch}}
    \cup {[isArray |-> FALSE, cells |-> <<>>]}

\* the batches sent among other requests
SomeBatchBodies ==
    BatchBodies
    \cup {[isArray |-> TRUE,
           cells   |-> <<[cell |-> A0, value |-> ValX, formula |-> Undef],
                         [cell |-> A1, value |-> ValX, formula |-> Undef]>>],
          [isArray |-> TRUE,
           cells   |-> <<[cell |-> A1, value |-> ValX, formula |-> FormulaB1]>>]}

InitEnqueue ==
    /\ workbookData = <<[id |-> InitialSheetId, name |-> "Sheet1", order |-> 0]>>
    /\ pendingUpdates = [k \in {} |-> <<>>]
    /\ pendingSheetCreations = <<>>
    /\ created = {}
    /\ workbookRef = TRUE
    /\ liveSheets = <<[id |-> InitialSheetId, name |-> "Sheet1"]>>
    /\ liveCells = [k \in {InitialSheetId} |-> EmptyCells]
    /\ activeSheet = InitialSheetId
    /\ pc = "idle"
    /\ creations = <<>>
    /\ ci = 1
    /\ sheets = <<>>
    /\ si = 1
    /\ updates = <<>>
    /\ timers = 1
    /\ nextUid = 1
    /\ faults = 0
    /\ passLog = <<>>
    /\ passInfo = NoPass
    /\ inWindow = {}
    /\ wiped = {}
    /\ applied = {}
    /\ createLog = <<>>
    /\ delivered = [k \in {} |-> 0]
    /\ call = NoCall

\* an enqueue handler serves a request; the request, the queues before it
\* and the response are kept in `call`
EnqueueCall(op, id, body, r) ==
    /\ ServeEnqueueHandler(id, r)
    /\ call' = [op |-> op, id |-> id, body |-> body, status |-> r.status,
                us |-> r.us, count |-> ResponseCount(r), before |-> pendingUpdates]

EnqueuePoint(id, body) ==
    EnqueueCall("cell", id, body, PostCellResult(workbookData, id, body))
EnqueueBatch(id, body) ==
    EnqueueCall("cells", id, body, PostCellsResult(workbookData, id, body))
EnqueueFromTables(id, body) ==
    EnqueueCall("from-table", id, body, PostFromTableResult(workbookData, id, body))

NextEnqueue ==
    \/ \E id \in SheetIds, body \in EnqPointBodies : EnqueuePoint(id, body)
    \/ \E id \in SheetIds, body \in SomeBatchBodies : EnqueueBatch(id, body)
    \/ \E id \in SheetIds, body \in TableBodies : EnqueueFromTables(id, body)

SpecEnqueue == InitEnqueue /\ [][NextEnqueue]_vars

\* one POST /cells request, over every batch (SpecBatch)
BatchCall ==
    /\ call.op = "none"
    /\ \E id \in SheetIds, body \in EnqBatchBodies : EnqueueBatch(id, body)

SpecBatch == InitEnqueue /\ [][BatchCall]_vars

----------------------------------------------------------------------------
(* The codec as functions of a column index and of a row and a column       *)
(* (SpecCodec).                                                             *)

MaxColumn == 702       \* column indexes 0..MaxColumn: A .. AAA
MaxRow    == 10        \* row indexes 0..MaxRow: references ending in 1 .. 11

\* indexToColumnChar(n), then columnCharToIndex of the result
ColumnRoundTrip ==
    /\ call.op = "none"
    /\ \E n \in 0..MaxColumn :
          call' = [op |-> "column", n |-> n,
                   letters |-> indexToColumnChar(n),
                   back |-> columnCharToIndex(indexToColumnChar(n))]
    /\ UNCHANGED <<workbookData, pendingUpdates, pendingSheetCreations, created,
                   workbookRef, liveSheets, liveCells, activeSheet,
                   pc, creations, ci, sheets, si, updates, timers,
                   nextUid, faults, passLog, passInfo, inWindow, wiped, applied,
                   createLog, delivered>>

\* getCellReference(row, col), then parseCellReference of the result
RefRoundTrip ==
    /\ call.op = "none"
    /\ \E row \in 0..MaxRow, col \in 0..MaxColumn :
          call' = [op |-> "ref", row |-> row, col |-> col,
                   ref |-> getCellReference(row, col),
                   back |-> parseCellReference(getCellReference(row, col))]
    /\ UNCHANGED <<workbookData, pendingUpdates, pendingSheetCreations, created,
                   workbookRef, liveSheets, liveCells, activeSheet,
                   pc, creations, ci, sheets, si, updates, timers,
                   nextUid, faults, passLog, passInfo, inWindow, wiped, applied,
                   createLog, delivered>>

NextCodec == ColumnRoundTrip \/ RefRoundTrip

SpecCodec == Init /\ [][NextCodec]_vars

----------------------------------------------------------------------------
(* The queue requests of the server one by one: enqueue, drain, clear and   *)
(* sheet creation (SpecQueues).                                             *)

NoDrain == [has |-> FALSE, updates |-> <<>>]

\* GET /api/sheet/:id/pending-updates; `prev` is the answer of the request
\* before when that was a drain of the same sheet
DrainRequest(id) ==
    /\ call' = [op |-> "drain", id |-> id,
                updates |-> QueueOf(pendingUpdates, id),
                count |-> Len(QueueOf(pendingUpdates, id)),
                before |-> pendingUpdates,
                prev |-> IF call.op = "drain" /\ call.id = id
                         THEN [has |-> TRUE, updates |-> call.updates]
                         ELSE NoDrain]
    /\ UNCHANGED <<workbookData, pendingUpdates, pendingSheetCreations, created,
                   workbookRef, liveSheets, liveCells, activeSheet,
                   pc, creations, ci, sheets, si, updates, timers,
                   nextUid, faults, passLog, passInfo, inWindow, wiped, applied,
                   createLog, delivered>>

\* DELETE /api/sheet/:id/pending-updates
ClearRequest(id) ==
    /\ pendingUpdates' = DeleteQueue(pendingUpdates, id)
    /\ call' = [op |-> "clear", id |-> id, before |-> pendingUpdates,
                creationsBefore |-> pendingSheetCreations]
    /\ UNCHANGED <<workbookData, pendingSheetCreations, created,
                   workbookRef, liveSheets, liveCells, activeSheet,
                   pc, creations, ci, sheets, si, updates, timers,
                   nextUid, faults, passLog, passInfo, inWindow, wiped, applied,
                   createLog, delivered>>

QueueBodies == {[cell |-> A1, value |-> ValX, formula |-> Undef]}

NextQueues ==
    \/ \E body \in CreateBodies : RequestCreate(body.name, body.order)
    \/ \E i \in DOMAIN workbookData, body \in QueueBodies :
          EnqueuePoint(workbookData[i].id, body)
    \/ \E i \in DOMAIN workbookData : DrainRequest(workbookData[i].id)
    \/ \E i \in DOMAIN workbookData : ClearRequest(workbookData[i].id)

SpecQueues == InitEnqueue /\ [][NextQueues]_vars

----------------------------------------------------------------------------
(* Snapshots replaced between creation requests (SpecSnapshots).  A sheet   *)
(* of a snapshot carries its cells in `data`: rows of cells, a cell a       *)
(* record of v (value), m (formatted text) and f (formula), each Undef      *)
(* when the cell has none; a missing row or cell is Null; rows and data are *)
(* arrays, Arr(<<...>>).                                                    *)

Cell(v, m, f) == [v |-> v, m |-> m, f |-> f]

\* a JSON array
Arr(items) == [t |-> "arr", v |-> items]

GridX == Arr(<<Arr(<<Cell(ValX, Undef, Undef)>>)>>)
GridF == Arr(<<Arr(<<Cell(Num(7), Undef, FormulaB1)>>)>>)

SnapshotBodies ==
    {<<>>,
     <<[id |-> "s0", name |-> "Sheet1", order |-> 0, data |-> GridX]>>,
     <<[id |-> "t0", name |-> "Data", order |-> 0, data |-> GridF],
       [id |-> "s0", name |-> "Sheet1", order |-> 1, data |-> Arr(<<>>)]>>}

SnapshotCreateBodies == {[name |-> "", order |-> Undef], [name |-> "Data", order |-> Num(0)]}

\* POST /api/workbook/update, were it to drop the queues of the sheets the
\* snapshot does not hold
ReplaceSnapshotPruning(snapshot) ==
    /\ workbookData' = snapshot
    /\ pendingUpdates' = [k \in {x \in DOMAIN pendingUpdates :
                                    \E i \in DOMAIN snapshot : snapshot[i].id = x} |->
                             pendingUpdates[k]]
    /\ call' = [op |-> "replace", snapshot |-> snapshot, before |-> workbookData]
    /\ UNCHANGED <<pendingSheetCreations, created,
                   workbookRef, liveSheets, liveCells, activeSheet,
                   pc, creations, ci, sheets, si, updates, timers,
                   nextUid, faults, passLog, passInfo, inWindow, wiped, applied,
                   createLog, delivered>>

\* POST /api/workbook/update, the request kept in `call`
ReplaceSnapshot(snapshot) ==
    /\ workbookData' = ReplaceWorkbook(workbookData, snapshot)
    /\ call' = [op |-> "replace", snapshot |-> snapshot, before |-> workbookData]
    /\ UNCHANGED <<pendingUpdates, pendingSheetCreations, created,
                   workbookRef, liveSheets, liveCells, activeSheet,
                   pc, creations, ci, sheets, si, updates, timers,
                   nextUid, faults, passLog, passInfo, inWindow, wiped, applied,
                   createLog, delivered>>

NextSnapshots ==
    \/ \E snapshot \in SnapshotBodies : ReplaceSnapshot(snapshot)
    \/ \E body \in SnapshotCreateBodies : RequestCreate(body.name, body.order)

SpecSnapshots == Init /\ [][NextSnapshots]_vars

\* Snapshots arriving between creation requests and enqueues (SpecStore):
\* the sheets addressed are those the store lists and those it has created.
StoreIds == {workbookData[i].id : i \in DOMAIN workbookData} \cup created

NextStore ==
    \/ \E snapshot \in SnapshotBodies : ReplaceSnapshot(snapshot)
    \/ \E body \in CreateBodies : RequestCreate(body.name, body.order)
    \/ \E id \in StoreIds, body \in QueueBodies : EnqueuePoint(id, body)

SpecStore == InitEnqueue /\ [][NextStore]_vars

----------------------------------------------------------------------------
(* TableProjection: api_server.js, GET /api/sheet/:id/excel-tables, as a    *)
(* function of the sheet's data (SpecProject).                              *)

MathMax(S) == CHOOSE m \in S : \A x \in S : x <= m

\* the positions (r, c), 0-based, the double loop puts into cellMap
CellMapKeys(data) ==
    IF data.t # "arr" THEN {}
    ELSE UNION {IF data.v[r + 1].t # "arr" THEN {}
                ELSE {<<r, c>> : c \in {k \in 0..(Len(data.v[r + 1].v) - 1) :
                                           data.v[r + 1].v[k + 1] # Null}} :
                r \in 0..(Len(data.v) - 1)}

\* cellMap.get(`${r},${c}`): Undef when the map has no such key
CellMapGet(data, r, c) ==
    IF <<r, c>> \in CellMapKeys(data) THEN data.v[r + 1].v[c + 1] ELSE Undef

MaxRowOf(data) == MathMax({0} \cup {rc[1] : rc \in CellMapKeys(data)})
MaxColOf(data) == MathMax({0} \cup {rc[2] : rc \in CellMapKeys(data)})

\* cell.m !== undefined ? cell.m : (cell.v !== undefined ? cell.v : null)
DisplayValue(cell) ==
    IF cell.m # Undef THEN cell.m
    ELSE IF cell.v # Undef THEN cell.v
    ELSE Null

\* cell.f || null
CellFormula(cell) == IF Truthy(cell.f) THEN cell.f ELSE Null

\* the formula shown, were the value always shown
ValueOnly(cell) == DisplayValue(cell)

\* formula || value
FormulaOrValue(cell) ==
    IF Truthy(CellFormula(cell)) THEN CellFormula(cell) ELSE DisplayValue(cell)

\* the column headers, were the last column left out
ColumnHeadersShort(maxCol) == [c \in 1..maxCol |-> indexToColumnChar(c - 1)]

\* columnHeaders: indexToColumnChar(c) for c = 0..maxCol
ColumnHeaders(maxCol) == [c \in 1..(maxCol + 1) |-> indexToColumnChar(c - 1)]

\* the column index whose letter the loop assigns last to the key colLetter
ColumnOfKey(colLetter, maxCol) ==
    MathMax({c \in 0..maxCol : indexToColumnChar(c) = colLetter})

\* valuesTable / formulasTable: an object keyed by the row numbers
\* 1..maxRow+1, each row an object keyed by the column letters; `shown`
\* gives the entry of an occupied cell
ProjectedTable(data, shown(_)) ==
    LET maxRow == MaxRowOf(data)
        maxCol == MaxColOf(data)
        hs     == ColumnHeaders(maxCol)
    IN  [rowNum \in 1..(maxRow + 1) |->
            [colLetter \in {hs[k] : k \in DOMAIN hs} |->
                LET cell == CellMapGet(data, rowNum - 1, ColumnOfKey(colLetter, maxCol))
                IN  IF cell # Undef THEN shown(cell) ELSE Null]]

\* the list, were every occupied cell listed
EveryCell(cell) == TRUE

\* cell && cell.f
HasFormula(cell) == Truthy(cell.f)

\* formula_cells: the cells with a formula, row by row
FormulaCells(data) ==
    LET maxRow == MaxRowOf(data)
        maxCol == MaxColOf(data)
        all    == [k \in 1..((maxRow + 1) * (maxCol + 1)) |->
                      <<(k - 1) \div (maxCol + 1), (k - 1) % (maxCol + 1)>>]
        with   == SelectSeq(all, LAMBDA rc :
                      /\ CellMapGet(data, rc[1], rc[2]) # Undef
                      /\ HasFormula(CellMapGet(data, rc[1], rc[2])))
    IN  [k \in 1..Len(with) |->
            LET cell == CellMapGet(data, with[k][1], with[k][2])
            IN  [cell    |-> getCellReference(with[k][1], with[k][2]),
                 row     |-> with[k][1] + 1,
                 col     |-> indexToColumnChar(with[k][2]),
                 formula |-> cell.f,
                 value   |-> IF cell.m # Undef THEN cell.m ELSE cell.v]]

\* the JSON GET /api/sheet/:id/excel-tables answers with for a sheet
ExcelTables(data) ==
    [rows           |-> MaxRowOf(data) + 1,
     columns        |-> MaxColOf(data) + 1,
     column_headers |-> ColumnHeaders(MaxColOf(data)),
     values_table   |-> ProjectedTable(data, DisplayValue),
     formulas_table |-> ProjectedTable(data, FormulaOrValue),
     formula_cells  |-> FormulaCells(data)]

MaxGridCells == 2      \* occupied cells of a sheet, and its last row and column

GridPositions == (0..MaxGridCells) \X (0..MaxGridCells)

CellPool ==
    {Cell(ValX, Undef, Undef),
     Cell(Num(7), Str(<<"7", ".", "0">>), Undef),
     Cell(Num(7), Undef, FormulaB1),
     Cell(Undef, Undef, Undef)}

Placements ==
    UNION {[P -> CellPool] :
              P \in {Q \in SUBSET GridPositions : Cardinality(Q) <= MaxGridCells}}

\* sheet.data for a placement: an array of rows up to the last occupied
\* one, a row without a cell null, a row with cells an array up to its last
\* cell with null at the other positions
GridOf(pl) ==
    IF DOMAIN pl = {} THEN Arr(<<>>)
    ELSE Arr([r \in 1..(MathMax({rc[1] : rc \in DOMAIN pl}) + 1) |->
            LET cs == {rc[2] : rc \in {x \in DOMAIN pl : x[1] = r - 1}}
            IN  IF cs = {} THEN Null
                ELSE Arr([c \in 1..(MathMax(cs) + 1) |->
                            IF <<r - 1, c - 1>> \in DOMAIN pl THEN pl[<<r - 1, c - 1>>]
                            ELSE Null])])

SheetDatas == {Undef} \cup {GridOf(pl) : pl \in Placements}

\* one GET /api/sheet/:id/excel-tables for a sheet with the data `data`
ProjectCall ==
    /\ call.op = "none"
    /\ \E data \in SheetDatas :
          call' = [op |-> "project", data |-> data, result |-> ExcelTables(data)]
    /\ UNCHANGED <<workbookData, pendingUpdates, pendingSheetCreations, created,
                   workbookRef, liveSheets, liveCells, activeSheet,
                   pc, creations, ci, sheets, si, updates, timers,
                   nextUid, faults, passLog, passInfo, inWindow, wiped, applied,
                   createLog, delivered>>

SpecProject == Init /\ [][ProjectCall]_vars

----------------------------------------------------------------------------
(* Properties of the update side (SpecUpdates). *)

StrictlyIncreasing(seq) == \A i, j \in DOMAIN seq : i < j => seq[i] < seq[j]

Wrote(entry) == entry.how \in {"id", "fallback"}

\* the positions of the drained list whose write reached cell (row, col) of
\* sheet `target` in this pass
WritesTo(target, row, col) ==
    {i \in DOMAIN updates :
        /\ updates[i].row = row /\ updates[i].col = col
        /\ \E k \in DOMAIN passLog :
              passLog[k].uid = updates[i].uid /\ Wrote(passLog[k])
                 /\ passLog[k].target = target}

Max(S) == CHOOSE m \in S : \A x \in S : x <= m

\* C1: every queue holds its updates oldest first in the order they were
\* appended, the drained list is the head of the queue in that order, and
\* the apply pass writes the drained updates in that same order: its log is
\* in drained order and every cell it wrote holds the payload of the last
\* drained update written to it.
C1_EnqueueOrderIsApplyOrder ==
    /\ \A id \in DOMAIN pendingUpdates : StrictlyIncreasing(UidSeq(pendingUpdates[id]))
    /\ pc \in {"applyStart", "applyLoop", "clearPending"} =>
          /\ StrictlyIncreasing(UidSeq(updates))
          /\ Len(QueueOf(pendingUpdates, sheets[si])) >= Len(updates)
          /\ SubSeq(QueueOf(pendingUpdates, sheets[si]), 1, Len(updates)) = updates
    /\ passInfo.phase = "applied" =>
          /\ StrictlyIncreasing([k \in DOMAIN passLog |-> passLog[k].uid])
          /\ \A i \in DOMAIN updates, t \in LiveIds :
                LET w == WritesTo(t, updates[i].row, updates[i].col)
                IN  w # {} =>
                       liveCells[t][<<updates[i].row, updates[i].col>>]
                          = Payload(updates[Max(w)])

\* two drained updates with different payloads were written to one cell
C1_Witness ==
    /\ passInfo.phase = "applied"
    /\ \E i, j \in DOMAIN updates :
          /\ i < j
          /\ updates[i].row = updates[j].row /\ updates[i].col = updates[j].col
          /\ Payload(updates[i]) # Payload(updates[j])
          /\ \E t \in LiveIds : {i, j} \subseteq WritesTo(t, updates[i].row, updates[i].col)

AllQueuedUids == UNION {Uids(pendingUpdates[id]) : id \in DOMAIN pendingUpdates}

\* C3: an update appended to a sheet's queue between the poller's non-empty
\* drain of that sheet and the same poller's clear is removed by the clear
\* and is never applied: it is in no queue, in no drained list and has
\* reached no cell.
C3_AppendedInWindowIsWiped ==
    \A u \in wiped : u \notin AllQueuedUids /\ u \notin Uids(updates) /\ u \notin applied

C3_Witness == wiped # {} /\ pc = "idle"

\* C4 (as claimed): after the poller has drained a non-empty queue for a
\* sheet that is not in the live workbook, the drained updates stay queued.
C4_SkippedSheetKeepsQueue ==
    passInfo.missing =>
        /\ passLog = <<>>
        /\ \A i \in DOMAIN passInfo.uids :
              passInfo.uids[i] \in Uids(QueueOf(pendingUpdates, passInfo.sheet))

\* C5: after an apply pass over a sheet of the live workbook the poller's
\* next request is the clear of that sheet, failed writes or not; once the
\* clear is served no failed update is left in any queue, and the queue is
\* empty unless something was enqueued for the sheet since the drain.
C5_ClearAfterApplyPass ==
    /\ passInfo.phase = "applied" => pc = "clearPending" /\ sheets[si] = passInfo.sheet
    /\ passInfo.phase = "cleared" =>
          /\ passInfo.failed \cap AllQueuedUids = {}
          /\ ~passInfo.enq => QueueOf(pendingUpdates, passInfo.sheet) = <<>>

\* a pass with a rejected write was cleared, with no enqueue since the drain
C5_Witness ==
    passInfo.phase = "cleared" /\ passInfo.failed # {} /\ ~passInfo.enq

\* C6: an apply pass visits every drained update, in order, whether or not
\* an earlier write was rejected.
C6_FailureDoesNotAbortPass ==
    passInfo.phase = "applied" =>
        /\ Len(passLog) = Len(updates)
        /\ \A i \in DOMAIN updates : passLog[i].uid = updates[i].uid

\* a write was rejected and a later update of the same pass was written
C6_Witness ==
    /\ passInfo.phase = "applied"
    /\ \E i, j \in DOMAIN passLog :
          i < j /\ passLog[i].how = "rejected" /\ Wrote(passLog[j])

----------------------------------------------------------------------------
(* Properties of the sheet side (SpecSheets). *)

QueuedCreationIds == {pendingSheetCreations[i].id : i \in DOMAIN pendingSheetCreations}

\* The state InitUpdates starts from, as the sheet side reaches it: the App
\* has synced, sheet_1 was requested, its addSheet threw and the cycle went on
\* to clear the creation queue.
ReachedCreatedButNotLive ==
    /\ workbookData = <<[id |-> InitialSheetId, name |-> "Sheet1", order |-> 0],
                        [id |-> "sheet_1", name |-> "Sheet2", order |-> 1]>>
    /\ pendingUpdates = [k \in {"sheet_1"} |-> <<>>]
    /\ pendingSheetCreations = <<>>
    /\ created = {"sheet_1"}
    /\ delivered = [k \in {"sheet_1"} |-> 1]
    /\ workbookRef
    /\ liveSheets = <<[id |-> InitialSheetId, name |-> "Sheet1"]>>
    /\ liveCells = [k \in {InitialSheetId} |-> EmptyCells]
    /\ activeSheet = InitialSheetId
    /\ pc = "idle"
    /\ timers = 1

\* C7 (as claimed), in the behaviours where no request and no owner call
\* fails: the creation requests handed to the poller and the requests
\* removed from the queue are the same, so a request that has left the queue
\* was handed over, and none is handed over in two cycles.
C7_CreationDrainIsAtomic ==
    faults = 0 =>
        \A id \in created :
            /\ id \notin QueuedCreationIds => delivered[id] >= 1
            /\ delivered[id] <= 1

\* C8: the live workbook never holds two sheets with one id (a request whose
\* id is there already is skipped), and when the creation loop is over every
\* request of the batch, in order, was skipped, added, or failed by itself:
\* each requested sheet is in the live workbook unless its own addSheet threw.
C8_CreationFailuresAreIsolated ==
    /\ \A i, j \in DOMAIN liveSheets : liveSheets[i].id = liveSheets[j].id => i = j
    /\ \A k \in DOMAIN createLog : createLog[k].did = "skipped" =>
          \E i \in DOMAIN liveSheets : liveSheets[i].id = createLog[k].id
    /\ pc = "clearCreations" =>
          /\ Len(createLog) = Len(creations)
          /\ \A k \in DOMAIN creations :
                /\ createLog[k].id = creations[k].id
                /\ createLog[k].did # "failed" => creations[k].id \in LiveIds

\* a request of the batch failed and a later one of the same batch was added
C8_Witness ==
    /\ pc = "clearCreations"
    /\ \E i, j \in DOMAIN createLog :
          i < j /\ createLog[i].did = "failed" /\ createLog[j].did = "added"

\* a request whose id is in the live workbook already was skipped
C8_SkipWitness ==
    \E k \in DOMAIN createLog : createLog[k].did = "skipped"

----------------------------------------------------------------------------
(* Properties of the table handler (SpecTables). *)

\* the cells a table names: its entries with a row key that parses to a row
\* >= 1, a column key that decodes, and a content that is not null
TableHits(table) ==
    IF table.t # "obj" THEN {}
    ELSE LET all == UNION {
                       {[row     |-> TableRow(table.v[i].key),
                         col     |-> columnCharToIndex(table.v[i].val.v[j].key),
                         content |-> table.v[i].val.v[j].val] :
                            j \in DOMAIN table.v[i].val.v} :
                       i \in DOMAIN table.v}
         IN  {[row |-> h.row.row, col |-> h.col, content |-> h.content] :
                 h \in {g \in all : ~g.row.skip /\ g.col >= 0 /\ ~IsNullish(g.content)}}

UpdateContent(u) == IF u.formula # Null THEN u.formula ELSE u.value

EntriesFor(us, row, col) == {k \in DOMAIN us : us[k].row = row /\ us[k].col = col}

\* C2: the updates of one from-table request hold exactly one entry for
\* every cell its tables name, and for a cell the formulas table names that
\* entry carries a content the formulas table gives the cell.
C2_OneEntryPerCellFormulaWins ==
    call.op = "from-table" =>
        LET vh == TableHits(call.values_table)
            fh == TableHits(call.formulas_table)
        IN  /\ \A h \in vh \cup fh :
                  Cardinality(EntriesFor(call.updates, h.row, h.col)) = 1
            /\ \A h \in fh : \A k \in EntriesFor(call.updates, h.row, h.col) :
                  UpdateContent(call.updates[k])
                     \in {g.content : g \in {x \in fh : x.row = h.row /\ x.col = h.col}}

\* a request whose two tables give one cell different contents
C2_Witness ==
    /\ call.op = "from-table"
    /\ \E hv \in TableHits(call.values_table), hf \in TableHits(call.formulas_table) :
          hv.row = hf.row /\ hv.col = hf.col /\ hv.content # hf.content

----------------------------------------------------------------------------
(* Properties of creation requests (SpecNames). *)

\* C9: the names of the sheets the store holds are pairwise different.
C9_SheetNamesDistinct ==
    \A i, j \in DOMAIN workbookData :
        workbookData[i].name = workbookData[j].name => i = j

\* a request named a sheet like one the store already held
C9_Witness ==
    /\ call.op = "create"
    /\ call.name \in existingNames(call.before)
    /\ Len(workbookData) >= 3

\* C10: a request whose name is taken is answered with that name followed
\* by the smallest k >= 1 for which name + k is not taken.
C10_SmallestFreeSuffix ==
    (call.op = "create" /\ call.name # "" /\ call.name \in existingNames(call.before)) =>
        \E k \in 1..(Len(call.before) + 1) :
            /\ call.sheet.name = call.name \o ToString(k)
            /\ call.sheet.name \notin existingNames(call.before)
            /\ \A j \in 1..(k - 1) :
                  call.name \o ToString(j) \in existingNames(call.before)

\* "Sheet1" was requested while "Sheet1" and "Sheet11" were taken
C10_Witness ==
    /\ call.op = "create"
    /\ call.name = "Sheet1"
    /\ {"Sheet1", "Sheet11"} \subseteq existingNames(call.before)
    /\ call.sheet.name = "Sheet12"

\* the sheet of a list with the id, and where it stands
SheetWithId(list, id) == list[CHOOSE i \in DOMAIN list : list[i].id = id]
PositionOf(list, id) == CHOOSE i \in DOMAIN list : list[i].id = id

\* C11: a creation request with an order k below the sheet count adds one to
\* the order of every sheet held before whose order is at least k and leaves
\* the order of the others; without an order, or with one not below the
\* sheet count, no order of a sheet held before changes.
C11_OrderShift ==
    call.op = "create" =>
        \A i \in DOMAIN call.before :
            LET b == call.before[i]
                shifts == /\ call.order.t = "num"
                          /\ call.order.v < Len(call.before)
                          /\ b.order >= call.order.v
            IN  SheetWithId(workbookData, b.id).order
                   = IF shifts THEN b.order + 1 ELSE b.order

\* order 1 was requested with two sheets held: one moved, the other did not
C11_Witness ==
    /\ call.op = "create"
    /\ call.order = Num(1)
    /\ Len(call.before) = 2
    /\ \E i, j \in DOMAIN call.before :
          /\ call.before[i].order = 1
          /\ SheetWithId(workbookData, call.before[i].id).order = 2
          /\ call.before[j].order = 0
          /\ SheetWithId(workbookData, call.before[j].id).order = 0

\* C12 (as claimed): in the list of sheets a created sheet stands after
\* every sheet that was held before the request.
C12_ListIsInsertionOrder ==
    call.op = "create" =>
        \A i \in DOMAIN call.before :
            PositionOf(ListSheets(workbookData), call.before[i].id)
               < PositionOf(ListSheets(workbookData), call.sheet.id)

\* C12 (amended): the list is the store's array: a sheet created with order
\* k, 0 <= k < sheet count, stands at array position k, before the sheets
\* that stood at positions >= k; created without an order or with one not
\* below the sheet count it stands last.  The sheets held before keep their
\* relative order.
C12_ListFollowsRequestedPosition ==
    call.op = "create" =>
        LET list == ListSheets(workbookData)
            n    == Len(call.before)
            atK  == call.order.t = "num" /\ 0 <= call.order.v /\ call.order.v < n
        IN  /\ Len(list) = n + 1
            /\ PositionOf(list, call.sheet.id) = IF atK THEN call.order.v + 1 ELSE n + 1
            /\ \A i, j \in DOMAIN call.before :
                  i < j => PositionOf(list, call.before[i].id)
                              < PositionOf(list, call.before[j].id)

\* a sheet created with order 0 while two were held is listed first
C12_Witness ==
    /\ call.op = "create"
    /\ call.order = Num(0)
    /\ Len(call.before) = 2
    /\ ListSheets(workbookData)[1].id = call.sheet.id

----------------------------------------------------------------------------
(* Properties of the enqueue handlers (SpecEnqueue). *)

\* The state InitEnqueue starts from, as the App's first sync leaves it.
ReachedSynced ==
    /\ workbookData = <<[id |-> InitialSheetId, name |-> "Sheet1", order |-> 0]>>
    /\ pendingUpdates = [k \in {} |-> <<>>]
    /\ pendingSheetCreations = <<>>
    /\ created = {}
    /\ pc = "idle"
    /\ timers = 1
    /\ faults = 0

SnapshotIds == {workbookData[i].id : i \in DOMAIN workbookData}

EnqueueOps == {"cell", "cells", "from-table"}

\* the updates without the identity the model gives them
Unstamped(us) ==
    [i \in 1..Len(us) |->
        [row |-> us[i].row, col |-> us[i].col, value |-> us[i].value,
         formula |-> us[i].formula, cell |-> us[i].cell]]

OtherQueuesUnchanged(id) ==
    /\ DOMAIN pendingUpdates \ {id} = DOMAIN call.before \ {id}
    /\ \A k \in DOMAIN call.before \ {id} : pendingUpdates[k] = call.before[k]

\* C14: a point request for a sheet of the snapshot whose reference is
\* absent or does not parse is answered 400 and leaves every queue as it
\* was; one whose reference parses is answered 200 and the sheet's queue is
\* the queue before plus exactly one update, that of the request, the other
\* queues as they were.
C14_PointErrorOrOneAppend ==
    (call.op = "cell" /\ call.id \in SnapshotIds) =>
        IF call.body.cell = NoRef \/ ~parseCellReference(call.body.cell).match
        THEN /\ call.status = 400
             /\ pendingUpdates = call.before
        ELSE /\ call.status = 200
             /\ Len(pendingUpdates[call.id]) = Len(QueueOf(call.before, call.id)) + 1
             /\ SubSeq(pendingUpdates[call.id], 1, Len(pendingUpdates[call.id]) - 1)
                   = QueueOf(call.before, call.id)
             /\ Unstamped(<<pendingUpdates[call.id][Len(pendingUpdates[call.id])]>>)
                   = <<PointUpdate(parseCellReference(call.body.cell), call.body)>>
             /\ OtherQueuesUnchanged(call.id)

\* a point request with the reference "1A" was refused while the queue held
\* an update
C14_Witness ==
    /\ call.op = "cell"
    /\ call.id \in SnapshotIds
    /\ call.body.cell = BadRef
    /\ call.status = 400
    /\ QueueOf(pendingUpdates, call.id) # <<>>

\* a point request with the reference "A1" added one update to a queue that
\* held one
C14_AppendWitness ==
    /\ call.op = "cell"
    /\ call.body.cell = A1
    /\ call.status = 200
    /\ Len(QueueOf(pendingUpdates, call.id)) = 2

\* C15 (as claimed): a point request with the reference "b2" for a sheet of
\* the snapshot is accepted and queues one update for row 1, column 1.
C15_LowerCaseDecodes ==
    (call.op = "cell" /\ call.id \in SnapshotIds /\ call.body.cell = LowerB2) =>
        /\ call.status = 200
        /\ Len(call.us) = 1
        /\ call.us[1].row = 1 /\ call.us[1].col = 1

\* C16 (as claimed): no queue holds an update with a negative row.
C16_NoNegativeRowQueued ==
    \A id \in DOMAIN pendingUpdates : \A i \in DOMAIN pendingUpdates[id] :
        pendingUpdates[id][i].row >= 0

----------------------------------------------------------------------------
(* Properties of one batch request (SpecBatch). *)

\* the items of a batch whose reference is there and parses
GoodItems(cells) ==
    SelectSeq(cells, LAMBDA c : c.cell # NoRef /\ parseCellReference(c.cell).match)

\* C18: a batch request for a sheet of the snapshot whose cells is an array
\* is answered 200 whatever its items are; the items whose reference is
\* absent or does not parse are left out, the others are appended to the
\* sheet's queue in the order of the request, and the count of the response
\* is the number of updates appended.
C18_BatchDropsBadItems ==
    (call.op = "cells" /\ call.id \in SnapshotIds /\ call.body.isArray) =>
        LET good == GoodItems(call.body.cells)
            q    == QueueOf(pendingUpdates, call.id)
            n0   == Len(QueueOf(call.before, call.id))
        IN  /\ call.status = 200
            /\ call.count = Len(good)
            /\ Len(q) = n0 + Len(good)
            /\ SubSeq(q, 1, n0) = QueueOf(call.before, call.id)
            /\ \A i \in DOMAIN good :
                  Unstamped(<<q[n0 + i]>>)
                     = <<PointUpdate(parseCellReference(good[i].cell), good[i])>>

\* a batch with an item that does not parse between two that do queued the
\* two, in the order of the request
C18_Witness ==
    /\ call.op = "cells"
    /\ call.id \in SnapshotIds
    /\ call.body.isArray
    /\ Len(call.body.cells) = 3
    /\ call.body.cells[1].cell = A0
    /\ call.body.cells[2].cell = BadRef
    /\ call.body.cells[3].cell = A1
    /\ Len(QueueOf(pendingUpdates, call.id)) = 2
    /\ pendingUpdates[call.id][1].cell = A0
    /\ pendingUpdates[call.id][2].cell = A1

\* a batch with an item without a reference queued the other item
C18_MissingWitness ==
    /\ call.op = "cells"
    /\ call.id \in SnapshotIds
    /\ call.body.isArray
    /\ \E i \in DOMAIN call.body.cells : call.body.cells[i].cell = NoRef
    /\ call.count = 1

----------------------------------------------------------------------------
(* Properties of the codec (SpecCodec). *)

\* C17: decoding the letters of a column index gives the index back, and
\* parsing the reference of a row and a column gives the row and the column
\* back; the letters of 0, 25, 26, 701 and 702 are A, Z, AA, ZZ and AAA.
C17_CodecRoundTrips ==
    /\ call.op = "column" =>
          /\ call.back = call.n
          /\ call.n = 0   => call.letters = <<"A">>
          /\ call.n = 25  => call.letters = <<"Z">>
          /\ call.n = 26  => call.letters = <<"A", "A">>
          /\ call.n = 701 => call.letters = <<"Z", "Z">>
          /\ call.n = 702 => call.letters = <<"A", "A", "A">>
    /\ call.op = "ref" =>
          /\ call.back.match
          /\ call.back.row = call.row
          /\ call.back.col = call.col

\* row 9, column 26 went through the reference AA10
C17_Witness ==
    /\ call.op = "ref"
    /\ call.row = 9 /\ call.col = 26
    /\ call.ref = <<"A", "A", "1", "0">>

\* column 702 went through the letters AAA
C17_ColumnWitness ==
    call.op = "column" /\ call.n = 702 /\ call.letters = <<"A", "A", "A">>

----------------------------------------------------------------------------
(* More properties of the table handler (SpecTables). *)

StartsWithEquals(x) == x.t = "str" /\ Len(x.v) >= 1 /\ x.v[1] = "="

UpdateCells(us) == {<<us[k].row, us[k].col>> : k \in DOMAIN us}
HitCells(hits) == {<<h.row, h.col>> : h \in hits}

\* C19: an update the formulas table gives a cell is a formula update
\* (formula set, value null) exactly when the entry is a string starting
\* with "=", and a value update (value set, formula null) for every other
\* entry; an update of the values table alone is a value update; the cells
\* with an update are the cells with an entry that is not null.
C19_FormulaIffEqualsString ==
    call.op = "from-table" =>
        LET vh == TableHits(call.values_table)
            fh == TableHits(call.formulas_table)
        IN  /\ UpdateCells(call.updates) = HitCells(vh \cup fh)
            /\ \A k \in DOMAIN call.updates :
                  LET u    == call.updates[k]
                      mine == {h \in fh : h.row = u.row /\ h.col = u.col}
                  IN  /\ mine # {} =>
                            \E h \in mine :
                               IF StartsWithEquals(h.content)
                               THEN u.formula = h.content /\ u.value = Null
                               ELSE u.value = h.content /\ u.formula = Null
                      /\ mine = {} => u.formula = Null /\ u.value # Null

\* a formulas table gave one cell the number 7 and another "=B1"
C19_Witness ==
    /\ call.op = "from-table"
    /\ {h.content : h \in TableHits(call.formulas_table)} = {Num(7), FormulaB1}
    /\ \E k \in DOMAIN call.updates :
          call.updates[k].value = Num(7) /\ call.updates[k].formula = Null
    /\ \E k \in DOMAIN call.updates :
          call.updates[k].formula = FormulaB1 /\ call.updates[k].value = Null

\* a request whose values table holds one entry, null, queued the one entry
\* of its formulas table alone
C19_NullWitness ==
    /\ call.op = "from-table"
    /\ call.values_table.t = "obj"
    /\ Len(TableCells(call.values_table)) = 1
    /\ TableHits(call.values_table) = {}
    /\ TableRow(TableCells(call.values_table)[1].rowNum).row = 0
    /\ ~TableRow(TableCells(call.values_table)[1].rowNum).skip
    /\ Len(call.updates) = 1

\* the row a key names: the number its characters other than quotes spell,
\* 0 when they are not digits
RowNamed(key) ==
    LET bare == SelectSeq(key, LAMBDA ch : ch \notin {"'", "\""})
    IN  IF bare # <<>> /\ \A i \in DOMAIN bare : bare[i] \in {"0", "1", "2", "3", "4",
                                                             "5", "6", "7", "8", "9"}
        THEN DecimalValue(bare)
        ELSE 0

\* the cells the entries of a table name that are not null, each row key
\* read as the number it spells
NamedCells(table) ==
    IF table.t # "obj" THEN {}
    ELSE LET cs == TableCells(table)
         IN  {<<RowNamed(cs[i].rowNum) - 1, columnCharToIndex(cs[i].colLetter)>> :
                 i \in {j \in DOMAIN cs : RowNamed(cs[j].rowNum) >= 1
                                          /\ ~IsNullish(cs[j].value)}}

\* C20: the cells a table request queues updates for are the cells its
\* entries name with the row key read as the number it spells, quoted or
\* not; an entry whose row key spells no number >= 1 gives no update.
C20_QuotedRowKeys ==
    call.op = "from-table" =>
        UpdateCells(call.updates)
           = NamedCells(call.values_table) \cup NamedCells(call.formulas_table)

\* a request with the row keys '1' and 0 queued one update, for row 0
C20_Witness ==
    /\ call.op = "from-table"
    /\ call.values_table.t = "obj"
    /\ \E i, j \in DOMAIN call.values_table.v :
          /\ call.values_table.v[i].key = <<"'", "1", "'">>
          /\ call.values_table.v[j].key = <<"0">>
    /\ Len(TableCells(call.values_table)) = 2
    /\ \A i \in DOMAIN TableCells(call.values_table) :
          ~IsNullish(TableCells(call.values_table)[i].value)
    /\ call.formulas_table = Null
    /\ Len(call.updates) = 1
    /\ call.updates[1].row = 0

----------------------------------------------------------------------------
(* More properties of the enqueue handlers (SpecEnqueue). *)

BothSupplied(item) == ~IsNullish(item.value) /\ ~IsNullish(item.formula)

\* C21: no queued update has both a value and a formula; a point request or
\* a batch item that gives both a value and a formula is queued with the
\* formula and a null value, and so is a cell both tables of a table request
\* give when the formulas table gives it a formula.
C21_ValueOrFormula ==
    /\ \A id \in DOMAIN pendingUpdates : \A i \in DOMAIN pendingUpdates[id] :
          ~(~IsNullish(pendingUpdates[id][i].value)
            /\ ~IsNullish(pendingUpdates[id][i].formula))
    /\ (call.op = "cell" /\ call.status = 200 /\ BothSupplied(call.body)) =>
          /\ Len(call.us) = 1
          /\ call.us[1].formula = call.body.formula
          /\ call.us[1].value = Null
    /\ (call.op = "cells" /\ call.status = 200) =>
          /\ Len(call.us) = Len(GoodItems(call.body.cells))
          /\ \A i \in DOMAIN call.us :
                BothSupplied(GoodItems(call.body.cells)[i]) =>
                   /\ call.us[i].formula = GoodItems(call.body.cells)[i].formula
                   /\ call.us[i].value = Null
    /\ (call.op = "from-table" /\ call.status = 200) =>
          \A h \in TableHits(call.body.formulas_table) :
             (StartsWithEquals(h.content)
              /\ h.row \in {g.row : g \in TableHits(call.body.values_table)}) =>
                \E k \in DOMAIN call.us :
                   /\ call.us[k].row = h.row /\ call.us[k].col = h.col
                   /\ call.us[k].formula = h.content
                   /\ call.us[k].value = Null

\* a point request that gave a value and a formula was queued
C21_Witness ==
    /\ call.op = "cell"
    /\ call.status = 200
    /\ BothSupplied(call.body)
    /\ QueueOf(pendingUpdates, call.id) # <<>>

\* a batch item that gave a value and a formula was queued
C21_BatchWitness ==
    /\ call.op = "cells"
    /\ call.status = 200
    /\ Len(call.us) = 1
    /\ BothSupplied(call.body.cells[1])

----------------------------------------------------------------------------
(* Properties of drain and clear (SpecQueues). *)

\* C22: a drain leaves every queue and the creation queue as they were and
\* answers with the sheet's queue, so a drain that follows a drain of the
\* same sheet answers the same list; a clear leaves the sheet's queue empty
\* and the queues of the other sheets and the creation queue as they were.
C22_DrainReadsClearEmptiesOne ==
    /\ call.op = "drain" =>
          /\ pendingUpdates = call.before
          /\ call.updates = QueueOf(pendingUpdates, call.id)
          /\ call.prev.has => call.updates = call.prev.updates
    /\ call.op = "clear" =>
          /\ QueueOf(pendingUpdates, call.id) = <<>>
          /\ \A k \in DOMAIN call.before \ {call.id} :
                k \in DOMAIN pendingUpdates /\ pendingUpdates[k] = call.before[k]
          /\ pendingSheetCreations = call.creationsBefore

\* a sheet's queue was cleared while another sheet's queue and the creation
\* queue held something
C22_Witness ==
    /\ call.op = "clear"
    /\ QueueOf(call.before, call.id) # <<>>
    /\ \E k \in DOMAIN pendingUpdates : k # call.id /\ pendingUpdates[k] # <<>>
    /\ pendingSheetCreations # <<>>

\* a non-empty queue was drained twice in a row
C22_DrainWitness ==
    call.op = "drain" /\ call.prev.has /\ call.updates # <<>>

----------------------------------------------------------------------------
(* Properties of snapshot replacement (SpecSnapshots). *)

\* C23: right after a snapshot was put, the held workbook is that snapshot:
\* the list of sheets is the sheets of the snapshot in its order, and no
\* sheet of an earlier snapshot or creation request that the snapshot does
\* not hold is listed.
C23_SnapshotReplacesAll ==
    call.op = "replace" =>
        LET list == ListSheets(workbookData)
        IN  /\ workbookData = call.snapshot
            /\ Len(list) = Len(call.snapshot)
            /\ \A i \in DOMAIN call.snapshot :
                  /\ list[i].id = call.snapshot[i].id
                  /\ list[i].name = call.snapshot[i].name
                  /\ list[i].order = call.snapshot[i].order
            /\ \A j \in DOMAIN call.before :
                  (\A i \in DOMAIN call.snapshot : call.snapshot[i].id # call.before[j].id)
                     => \A i \in DOMAIN list : list[i].id # call.before[j].id

\* a snapshot was put over a workbook holding a created sheet and a sheet
\* of an earlier snapshot with other cells
C23_Witness ==
    /\ call.op = "replace"
    /\ call.snapshot # <<>>
    /\ \E j \in DOMAIN call.before : call.before[j].id \in created
    /\ \E j \in DOMAIN call.before : \E i \in DOMAIN call.snapshot :
          /\ call.before[j].id = call.snapshot[i].id
          /\ call.before[j] # call.snapshot[i]

----------------------------------------------------------------------------
(* Properties of the table projection (SpecProject). *)

\* the cells of the data that are not null, by position
OccupiedAt(data) ==
    IF data = Undef THEN {}
    ELSE {rc \in (0..(Len(data.v) - 1)) \X (0..MaxGridCells) :
             /\ data.v[rc[1] + 1] # Null
             /\ rc[2] + 1 <= Len(data.v[rc[1] + 1].v)
             /\ data.v[rc[1] + 1].v[rc[2] + 1] # Null}

CellOf(data, rc) == data.v[rc[1] + 1].v[rc[2] + 1]

LargestRow(data) == IF OccupiedAt(data) = {} THEN 0
                    ELSE CHOOSE r \in {rc[1] : rc \in OccupiedAt(data)} :
                            \A rc \in OccupiedAt(data) : rc[1] <= r
LargestCol(data) == IF OccupiedAt(data) = {} THEN 0
                    ELSE CHOOSE c \in {rc[2] : rc \in OccupiedAt(data)} :
                            \A rc \in OccupiedAt(data) : rc[2] <= c

\* C24: both tables have exactly the rows 1..maxRow+1 and in each row
\* exactly the columns of the letters of 0..maxCol, maxRow and maxCol the
\* largest row and column of an occupied cell (0 for a sheet without one),
\* and null wherever the sheet holds no cell.
C24_FullRectangle ==
    call.op = "project" =>
        LET maxRow  == LargestRow(call.data)
            maxCol  == LargestCol(call.data)
            letters == {indexToColumnChar(c) : c \in 0..maxCol}
            vt      == call.result.values_table
            ft      == call.result.formulas_table
        IN  /\ DOMAIN vt = 1..(maxRow + 1)
            /\ DOMAIN ft = 1..(maxRow + 1)
            /\ Cardinality(letters) = maxCol + 1
            /\ \A rowNum \in 1..(maxRow + 1) :
                  /\ DOMAIN vt[rowNum] = letters
                  /\ DOMAIN ft[rowNum] = letters
                  /\ \A c \in 0..maxCol :
                        <<rowNum - 1, c>> \notin OccupiedAt(call.data) =>
                           /\ vt[rowNum][indexToColumnChar(c)] = Null
                           /\ ft[rowNum][indexToColumnChar(c)] = Null

\* a sheet whose one cell is at row 2, column 1 was projected
C24_Witness ==
    /\ call.op = "project"
    /\ OccupiedAt(call.data) = {<<2, 1>>}
    /\ DOMAIN call.result.values_table = 1..3
    /\ DOMAIN call.result.values_table[1] = {<<"A">>, <<"B">>}

\* a sheet without cells was projected
C24_EmptyWitness ==
    /\ call.op = "project"
    /\ OccupiedAt(call.data) = {}
    /\ DOMAIN call.result.values_table = {1}

\* C25: for every occupied cell the values table holds the cell's formatted
\* text if it has one, else its value if it has one, else null, and the
\* formulas table holds the cell's formula if it has one, else the entry of
\* the values table.
C25_ValueAndFormulaEntries ==
    call.op = "project" =>
        \A rc \in OccupiedAt(call.data) :
            LET cell   == CellOf(call.data, rc)
                letter == indexToColumnChar(rc[2])
                v      == call.result.values_table[rc[1] + 1][letter]
                f      == call.result.formulas_table[rc[1] + 1][letter]
            IN  /\ v = IF cell.m # Undef THEN cell.m
                       ELSE IF cell.v # Undef THEN cell.v ELSE Null
                /\ f = IF cell.f # Undef THEN cell.f ELSE v

\* a sheet with a formatted cell and a formula cell was projected
C25_Witness ==
    /\ call.op = "project"
    /\ \E rc \in OccupiedAt(call.data) : CellOf(call.data, rc).m # Undef
    /\ \E rc \in OccupiedAt(call.data) : CellOf(call.data, rc).f # Undef

\* C26: every listed formula cell's reference parses to a position of the
\* sheet whose cell has the listed formula and whose formulas-table entry is
\* that formula, and every occupied cell with a formula is listed, once.
C26_FormulaCellsExact ==
    call.op = "project" =>
        LET fc == call.result.formula_cells
        IN  /\ \A k \in DOMAIN fc :
                  LET at == parseCellReference(fc[k].cell)
                  IN  /\ at.match
                      /\ <<at.row, at.col>> \in OccupiedAt(call.data)
                      /\ CellOf(call.data, <<at.row, at.col>>).f = fc[k].formula
                      /\ call.result.formulas_table[at.row + 1][indexToColumnChar(at.col)]
                            = fc[k].formula
            /\ \A rc \in OccupiedAt(call.data) :
                  CellOf(call.data, rc).f # Undef =>
                     Cardinality({k \in DOMAIN fc :
                                     fc[k].cell = getCellReference(rc[1], rc[2])}) = 1

\* a sheet with a formula cell and a cell without a formula was projected
C26_Witness ==
    /\ call.op = "project"
    /\ Len(call.result.formula_cells) = 1
    /\ Cardinality(OccupiedAt(call.data)) = 2

----------------------------------------------------------------------------
(* C27: poller cycles are not reentrant.  A cycle starts only when a pending
   setTimeout(poll) callback fires, so two cycles could overlap only if a
   callback were pending while a cycle is in progress.  While a cycle is in
   progress no callback is pending, and between cycles exactly one is: the next
   cycle is scheduled by the step that ends the previous one, after its fetch,
   apply and clear steps. *)
CycleInProgress == pc # "idle"

C27_CyclesNotReentrant ==
    /\ CycleInProgress => timers = 0
    /\ ~CycleInProgress => timers = 1

\* a second cycle has been scheduled after a first one that applied an update
\* and cleared the queue
C27_Witness ==
    /\ pc = "idle"
    /\ timers = 1
    /\ passInfo.phase = "cleared"
    /\ applied # {}

\* in the middle of a cycle, between the apply and the clear
C27_MidCycleWitness == pc = "clearPending" /\ timers = 0 /\ applied # {}

\* The state InitCycle starts from, as the sheet side reaches it: the App has
\* synced and sheet_1 was requested; no cycle has run since.
ReachedOneCreationQueued ==
    /\ workbookData = <<[id |-> InitialSheetId, name |-> "Sheet1", order |-> 0],
                        [id |-> "sheet_1", name |-> "Sheet2", order |-> 1]>>
    /\ pendingUpdates = [k \in {"sheet_1"} |-> <<>>]
    /\ pendingSheetCreations = <<[id |-> "sheet_1", name |-> "Sheet2", order |-> 1]>>
    /\ created = {"sheet_1"}
    /\ delivered = [k \in {"sheet_1"} |-> 0]
    /\ workbookRef
    /\ liveSheets = <<[id |-> InitialSheetId, name |-> "Sheet1"]>>
    /\ liveCells = [k \in {InitialSheetId} |-> EmptyCells]
    /\ activeSheet = InitialSheetId
    /\ pc = "idle"
    /\ timers = 1
    /\ nextUid = 1
    /\ faults = 0

----------------------------------------------------------------------------
(* Order of the updates of one table request (SpecTableOrder). *)

\* does entry k of a table's walk name the cell rc
VisitNames(cells, k, rc) ==
    /\ ~TableRow(cells[k].rowNum).skip
    /\ columnCharToIndex(cells[k].colLetter) >= 0
    /\ ~IsNullish(cells[k].value)
    /\ rc = <<TableRow(cells[k].rowNum).row, columnCharToIndex(cells[k].colLetter)>>

\* the place, in the walk of a table, of the last entry that names rc
LastVisit(cells, rc) ==
    CHOOSE k \in DOMAIN cells :
        /\ VisitNames(cells, k, rc)
        /\ \A m \in DOMAIN cells : m > k => ~VisitNames(cells, m, rc)

UpdateAt(us, k) == <<us[k].row, us[k].col>>

\* C29: in the updates of one from-table request every update of a cell only
\* the values table names comes before every update of a cell the formulas
\* table names; a cell the formulas table names, the values table naming it
\* or not, has one update, and these updates stand in the order in which the
\* formulas table's walk reaches their (last) entries.
C29_ValuesBeforeFormulas ==
    call.op = "from-table" =>
        LET us     == call.updates
            fc     == HitCells(TableHits(call.formulas_table))
            fcells == IF call.formulas_table.t = "obj"
                      THEN TableCells(call.formulas_table) ELSE <<>>
        IN  /\ \A i, j \in DOMAIN us :
                  (UpdateAt(us, i) \notin fc /\ UpdateAt(us, j) \in fc) => i < j
            /\ \A rc \in fc : Cardinality(EntriesFor(us, rc[1], rc[2])) = 1
            /\ \A i, j \in DOMAIN us :
                  (UpdateAt(us, i) \in fc /\ UpdateAt(us, j) \in fc /\ i < j)
                     => LastVisit(fcells, UpdateAt(us, i)) < LastVisit(fcells, UpdateAt(us, j))

\* values {1: {A: x}} with formulas {2: {A: =B1}}: A1 as a value, then A2 as
\* a formula
C29_Witness ==
    /\ call.op = "from-table"
    /\ HitCells(TableHits(call.values_table)) = {<<0, 0>>}
    /\ HitCells(TableHits(call.formulas_table)) = {<<1, 0>>}
    /\ Len(call.updates) = 2
    /\ call.updates[1].cell = <<"A", "1">> /\ call.updates[1].value = ValX
    /\ call.updates[2].cell = <<"A", "2">> /\ call.updates[2].formula = FormulaB1

\* the values table names A1 and A2, the formulas table A1: A1 leaves the
\* first place and stands after A2
C29_MovedWitness ==
    /\ call.op = "from-table"
    /\ HitCells(TableHits(call.values_table)) = {<<0, 0>>, <<1, 0>>}
    /\ HitCells(TableHits(call.formulas_table)) = {<<0, 0>>}
    /\ Len(call.updates) = 2
    /\ UpdateAt(call.updates, 1) = <<1, 0>>
    /\ UpdateAt(call.updates, 2) = <<0, 0>>

----------------------------------------------------------------------------
(* Applying an update again (SpecApply). *)

C28_FallbackWitness ==
    /\ call.op = "apply-twice"
    /\ call.first.how = "fallback"
    /\ call.second.how = "fallback"
    /\ call.first.target # call.sheetId
    /\ call.once # call.before

----------------------------------------------------------------------------
(* Order of the steps of one cycle (SpecCycle). *)

CreationSteps == {"getCreations", "addSheet", "nameSheet", "clearCreations"}
SheetSteps    == {"getPending", "applyStart", "applyLoop", "clearPending"}

\* the part of the cycle a step belongs to: none, the creation pass, the
\* sheet list, the passes over the sheets
PartOf(p) ==
    CASE p \in CreationSteps -> 1
      [] p = "getSheets"      -> 2
      [] p \in SheetSteps     -> 3
      [] OTHER                -> 0

\* the place of a step within the pass over one sheet: drain, apply, clear
StepOf(p) ==
    CASE p = "getPending"   -> 1
      [] p = "applyStart"   -> 2
      [] p = "applyLoop"    -> 3
      [] p = "clearPending" -> 4
      [] OTHER              -> 0

CycleOrder ==
    \* a cycle starts with the creation pass, the sheet list follows it, the
    \* passes over the sheets follow the list; a part once left is not
    \* entered again in the same cycle
    /\ PartOf(pc') \in {PartOf(pc), PartOf(pc) + 1, 0}
    /\ (pc = "idle" /\ pc' # "idle") => pc' = "getCreations"
    \* the creations are handed to the owner in the creation pass only
    /\ liveSheets' # liveSheets => PartOf(pc) = 1
    \* a queue is fetched in the sheet passes only, and it is the queue of
    \* the sheet the loop stands at
    /\ updates' # updates =>
          (pc = "getPending" /\ updates' = QueueOf(pendingUpdates, sheets[si]))
    \* the first sheet is the first of the list
    /\ (PartOf(pc) = 2 /\ PartOf(pc') = 3) => (si' = 1 /\ pc' = "getPending")
    \* within the sheet passes the list stays as fetched; a step of the
    \* poller either goes on with the same sheet, or the sheet is done and
    \* the next one of the list is drained (the first disjunct is a step of
    \* the server or of the App)
    /\ (PartOf(pc) = 3 /\ PartOf(pc') = 3) =>
          /\ sheets' = sheets
          /\ \/ si' = si /\ pc' = pc
             \/ si' = si /\ StepOf(pc') > StepOf(pc)
             \/ si' = si + 1 /\ si' <= Len(sheets) /\ pc' = "getPending"
    \* the list is the one GET /api/sheets returned
    /\ sheets' # sheets =>
          (pc = "getSheets"
             /\ sheets' = [i \in 1..Len(workbookData) |-> workbookData[i].id])

\* C30: every cycle starts with the creation pass, fetches the sheet list
\* after it and the queues after the list; the sheets are taken one at a
\* time in the order of the list, and a sheet's drain, apply and clear are
\* over before the next sheet's drain.
C30_CreationsThenSheetsInOrder == [][CycleOrder]_vars

\* the first cycle that was handed the creation of sheet_1 added it, then
\* drained, applied and cleared the queue of s0 and after it that of sheet_1
C30_Witness ==
    /\ pc = "idle"
    /\ faults = 0
    /\ delivered["sheet_1"] = 1
    /\ createLog # <<>>
    /\ sheets = <<InitialSheetId, "sheet_1">>
    /\ si = 2
    /\ passInfo.sheet = "sheet_1" /\ passInfo.phase = "cleared"
    /\ applied = {1, 2}
    /\ liveCells[InitialSheetId] # EmptyCells
    /\ liveCells["sheet_1"] # EmptyCells

----------------------------------------------------------------------------
(* The initial sync (SpecInitialSync). *)

\* C31: tryInitialSync runs at most six times, with the arguments 0 to 5;
\* the timer before the first run waits 500 ms and the timer set by the run
\* with argument k waits 500 * (k + 1) ms; the snapshot is sent at most
\* once, by the first run that finds sheets, and that run is the last: no
\* timer is pending after it, and none after the sixth run.
C31_InitialSyncTerminates ==
    call.op = "tryInitialSync" =>
        /\ Len(call.found) <= 6
        /\ call.attempts \in 0..5
        /\ call.timer => call.attempts = Len(call.found)
        /\ Len(call.found) = 6 => ~call.timer
        /\ call.delays[1] = 500
        /\ \A k \in 2..Len(call.delays) : call.delays[k] = 500 * (k - 1)
        /\ \A k \in 3..Len(call.delays) : call.delays[k] - call.delays[k - 1] = 500
        /\ call.sent <= 1
        /\ call.sent = Cardinality({k \in DOMAIN call.found : call.found[k] = "sheets"})
        /\ \A k \in DOMAIN call.found :
              call.found[k] = "sheets" => (k = Len(call.found) /\ ~call.timer)

\* six runs found nothing to send: the loop has given up
C31_Witness ==
    /\ call.op = "tryInitialSync"
    /\ Len(call.found) = 6
    /\ call.sent = 0
    /\ call.delays = <<500, 500, 1000, 1500, 2000, 2500>>

\* the third run found sheets and sent them
C31_SentWitness ==
    /\ call.op = "tryInitialSync"
    /\ Len(call.found) = 3
    /\ call.sent = 1
    /\ workbookData # <<>>

----------------------------------------------------------------------------
(* Order values after creation requests (SpecNames). *)

\* C32: the order values of the sheets the store holds are pairwise
\* different, from a snapshot with the orders 0..n-1 on and after any
\* creation requests with an order >= 0 or none.
C32_OrdersDistinct ==
    \A i, j \in DOMAIN workbookData :
        workbookData[i].order = workbookData[j].order => i = j

----------------------------------------------------------------------------
(* Snapshots and the queues (SpecStore). *)

\* C33: a step that puts a snapshot leaves every sheet's queue of pending
\* updates, the queues of sheets the snapshot does not hold included, and
\* the queue of pending sheet creations as they were.
C33_ReplaceKeepsQueues ==
    [][call'.op = "replace" =>
          /\ pendingUpdates' = pendingUpdates
          /\ pendingSheetCreations' = pendingSheetCreations]_vars

\* a snapshot was put that does not hold a sheet with queued updates, while
\* a creation was pending
C33_Witness ==
    /\ call.op = "replace"
    /\ pendingSheetCreations # <<>>
    /\ \E id \in DOMAIN pendingUpdates :
          /\ pendingUpdates[id] # <<>>
          /\ \A i \in DOMAIN call.snapshot : call.snapshot[i].id # id

----------------------------------------------------------------------------
(* The poll loop goes on (SpecCycleFair). *)

\* what a step does to the pending timers: the run that starts a cycle uses
\* up the one that fired, a step inside a cycle arms none, a run that finds
\* the workbook unavailable arms one for the one that fired, and the step
\* that ends a cycle, whichever it is, arms one
TimerStep ==
    /\ (pc = "idle" /\ pc' # "idle") => timers' = timers - 1
    /\ (pc # "idle" /\ pc' # "idle") => timers' = timers
    /\ (pc = "idle" /\ pc' = "idle") => timers' = timers
    /\ (pc # "idle" /\ pc' = "idle") => timers' = timers + 1

\* C34: the poll loop neither stops nor multiplies: between cycles one
\* timer is pending and never more than one; every cycle that has started
\* comes to its end, by completion or by a failure, and its last step arms
\* exactly one timer.
C34_PollLoopGoesOn ==
    /\ [][TimerStep]_vars
    /\ [](timers <= 1)
    /\ [](pc = "idle" => timers = 1)
    /\ (pc # "idle") ~> (pc = "idle" /\ timers = 1)

\* a cycle whose clear threw after its apply has ended and armed the next
C34_Witness ==
    /\ pc = "idle"
    /\ timers = 1
    /\ faults >= 1
    /\ passInfo.phase = "clearFailed"

\* the timer is pending while the workbook is unavailable
C34_NotReadyWitness == pc = "idle" /\ timers = 1 /\ ~workbookRef /\ applied # {}

----------------------------------------------------------------------------
(* No second application (SpecClearServed). *)

\* the step is the loop of applyUpdates
ApplyLoopRan == pc \in {"applyStart", "applyLoop"} /\ passInfo'.phase = "applied"

\* C35: with one poller and every clear served, the loop of applyUpdates
\* never writes an update that an earlier pass has written already: no
\* update reaches the live document in more than one cycle.
C35_AppliedInOneCycleOnly ==
    [][ApplyLoopRan => Written(passLog') \cap applied = {}]_vars

\* two cycles have each applied and cleared an update of the same sheet
C35_Witness ==
    /\ pc = "idle"
    /\ applied = {1, 2}
    /\ passInfo.phase = "cleared"
    /\ passInfo.uids = <<2>>
    /\ pendingUpdates = [k \in DOMAIN pendingUpdates |-> <<>>]

----------------------------------------------------------------------------
(* Clears follow non-empty drains only (SpecUpdates). *)

\* the step takes the queue of sheet id away or takes an update out of it
RemovesFrom(id) ==
    \/ id \notin DOMAIN pendingUpdates'
    \/ ~(Uids(pendingUpdates[id]) \subseteq Uids(pendingUpdates'[id]))

\* C36: a step removes a sheet's queue, or anything in it, only as the clear
\* the poller sends for the sheet it stands at, after this cycle's drain of
\* that sheet returned at least one update; after an empty drain nothing
\* enqueued for the sheet is removed in that cycle.
C36_ClearOnlyAfterNonEmptyDrain ==
    [][\A id \in DOMAIN pendingUpdates :
          RemovesFrom(id) =>
             /\ pc = "clearPending"
             /\ sheets[si] = id
             /\ updates # <<>>
             /\ passInfo.sheet = id
             /\ passInfo.uids = UidSeq(updates)]_vars

\* the cycle drained nothing from s0 and has moved on to the next sheet;
\* an update enqueued for s0 meanwhile is in its queue
C36_Witness ==
    /\ pc = "getPending"
    /\ faults = 0
    /\ passInfo = NoPass
    /\ sheets[1] = InitialSheetId
    /\ si = 2
    /\ InitialSheetId \in DOMAIN pendingUpdates
    /\ pendingUpdates[InitialSheetId] # <<>>

----------------------------------------------------------------------------
(* Queues get drained (SpecDrainFair). *)

DrainSheets == {InitialSheetId, "sheet_1"}

InSnapshotAndLive(id) ==
    /\ \E i \in DOMAIN workbookData : workbookData[i].id = id
    /\ \E i \in DOMAIN liveSheets : liveSheets[i].id = id

HoldsUpdate(id, u) ==
    /\ id \in DOMAIN pendingUpdates
    /\ \E k \in DOMAIN pendingUpdates[id] : pendingUpdates[id][k].uid = u

IsEmptied(id) == id \notin DOMAIN pendingUpdates \/ pendingUpdates[id] = <<>>

----------------------------------------------------------------------------
(* Created sheets and later snapshots (SpecStore). *)

\* C38: every sheet a creation request has returned is listed by GET
\* /api/sheets, and an enqueue request for it is not answered 404, whatever
\* snapshots have been put since.
C38_CreatedStaysAddressable ==
    /\ \A x \in created :
          \E i \in DOMAIN ListSheets(workbookData) : ListSheets(workbookData)[i].id = x
    /\ (call.op = "cell" /\ call.id \in created) => call.status # 404

====
